---- MODULE Spec2Model ----
(***************************************************************************)
(* Expression binding (pkg/sql/returning.go: returningHelper) and          *)
(* cross-node expression serialization (distsqlplan: MakeExpression).      *)
(*                                                                         *)
(* A returningHelper lives on a heap (helpers) and is known by its address;*)
(* every IndexedVar leaf of a bound expression holds the address of the    *)
(* container it was bound to.  Rows (tree.Datums slices) live on a second  *)
(* heap (rows) and are known by reference, so that "the same row object"   *)
(* and "a new row" are different things in the model.                      *)
(***************************************************************************)
EXTENDS Integers, Sequences, FiniteSets, TLC

\* ------------------------------------------------------------------------
\* Bounds of the model
\* ------------------------------------------------------------------------
\* number of newReturningHelper calls explored
MaxHelpers == 1
\* number of cookResultRow calls explored
MaxCalls == 3
\* number of MakeExpression calls running concurrently
NEncoders == 2
\* most entries of a map and most elements of a slice in a status message
MaxEntries == 2
\* most pieces (tags, varints, fields) an input of the decoder is made of
MaxChunks == 2

\* ------------------------------------------------------------------------
\* Go values
\* ------------------------------------------------------------------------
\* A Go slice is nil or has elements; a nil slice and an empty non-nil slice
\* differ under "== nil".
Range(s) == {s[i] : i \in 1..Len(s)}
NilSlice == [isNil |-> TRUE, elems |-> <<>>]
MkSlice(s) == [isNil |-> FALSE, elems |-> s]
\* the nil row reference / nil pointer
NilRef == 0

\* tablecols: the column descriptors of the table, (k INT, v INT)
TableCols == <<"k", "v">>
NCols == Len(TableCols)

\* ------------------------------------------------------------------------
\* Source expressions (tree.Expr, before binding)
\* ------------------------------------------------------------------------
Col(n) == [t |-> "col", name |-> n]
Star == [t |-> "star"]
Num(v) == [t |-> "num", v |-> v]
Ph(n) == [t |-> "ph", n |-> n]
Bin(op, l, r) == [t |-> "bin", op |-> op, l |-> l, r |-> r]
Agg(e) == [t |-> "agg", arg |-> e]
Win(e) == [t |-> "win", arg |-> e]

\* Bound leaves (tree.IndexedVar): index into the row plus the container
\* the leaf was bound to, by address.
IVar(i, c) == [t |-> "ivar", idx |-> i, c |-> c]

\* The RETURNING clauses explored.
ExprsClause(l) == [kind |-> "exprs", list |-> l]
Clauses ==
  { [kind |-> "nothing", list |-> <<>>],
    [kind |-> "none", list |-> <<>>],
    [kind |-> "other", list |-> <<>>],
    ExprsClause(<<>>),
    ExprsClause(<<Bin("*", Col("v"), Num(2))>>),
    ExprsClause(<<Bin("/", Col("k"), Col("v")), Bin("+", Col("k"), Col("v"))>>),
    ExprsClause(<<Bin("/", Num(20), Col("k")), Bin("/", Num(20), Col("v")), Col("k")>>),
    ExprsClause(<<Star, Bin("+", Bin("*", Col("k"), Ph(1)), Col("v"))>>),
    ExprsClause(<<Bin("+", Ph(2), Col("v"))>>),
    ExprsClause(<<Col("k"), Agg(Col("v"))>>),
    ExprsClause(<<Bin("+", Col("k"), Win(Col("v")))>>),
    ExprsClause(<<Col("z"), Agg(Col("v"))>>),
    ExprsClause(<<Col("k"), Col("z")>>) }


\* The rows the caller passes to cookResultRow: rows of the table's shape
\* and one row shorter than the table (the code does not check the length).
InputRows == << <<10, 20>>, <<3, 0>>, <<10>> >>

\* The placeholder environments (EvalContext.Placeholders) explored: $1 is
\* always bound, $2 is bound in the first and unbound in the second.
Bound(v) == [bound |-> TRUE, v |-> v]
Unbound == [bound |-> FALSE, v |-> 0]
PlaceholderEnvs == { <<Bound(7), Bound(30)>>, <<Bound(7), Unbound>> }

VARIABLES
  helpers,       \* heap of returningHelper structs, address = position
  returned,      \* addresses newReturningHelper has returned to a caller
  rows,          \* heap of rows (tree.Datums), reference = position
  placeholders,  \* the EvalContext's placeholder bindings
  ret,           \* what the last operation returned to its caller
  calls,         \* per helper: the clause it was built from, cookResultRow
                 \* calls made on it, those that returned without error, and
                 \* the row and outcome of every call in order
  enc,           \* per concurrent MakeExpression call: its position and locals
  bufs,          \* the bytes.Buffers of the concurrent MakeExpression calls
  pb             \* the status message codec: the call under way, its
                 \* argument, its locals and what it returned

vars == <<helpers, returned, rows, placeholders, ret, calls, enc, bufs, pb>>

\* ------------------------------------------------------------------------
\* Results
\* ------------------------------------------------------------------------
\* Outcome of an evaluation: a datum, an error value, or a panic.
OkD(d) == [kind |-> "ok", d |-> d, msg |-> ""]
ErrD(m) == [kind |-> "err", d |-> 0, msg |-> m]
PanicD(m) == [kind |-> "panic", d |-> 0, msg |-> m]

\* ------------------------------------------------------------------------
\* Binding
\* ------------------------------------------------------------------------
RECURSIVE ContainsAggOrWindow(_)
\* tree: whether an aggregate or window construct occurs in the expression
ContainsAggOrWindow(e) ==
  CASE e.t \in {"agg", "win"} -> TRUE
    [] e.t = "bin" -> ContainsAggOrWindow(e.l) \/ ContainsAggOrWindow(e.r)
    [] OTHER -> FALSE

\* TransactionContext.AssertNoAggregationOrWindowing(expr, "RETURNING", ...)
AssertNoAggregationOrWindowing(e) ==
  IF ContainsAggOrWindow(e)
  THEN "aggregate or window functions are not allowed in RETURNING"
  ELSE ""

\* (faulty variant: the source carries a column the table does not have)
SourceColumnsWide == <<"z">> \o TableCols
\* rh.source: newSourceInfoForSingleTable over the columns of tablecols
SourceColumns == TableCols

\* position of a column name in the table, 0 when there is none
ColumnIndex(name) ==
  IF \E i \in 1..Len(SourceColumns) : SourceColumns[i] = name
  THEN CHOOSE i \in 1..Len(SourceColumns) : SourceColumns[i] = name
  ELSE 0

RECURSIVE ResolveNames(_, _)
\* Name resolution of one expression against the table: a column name
\* becomes an IndexedVar bound to container c, indices dense from 0 in the
\* order of the table's columns.
ResolveNames(e, c) ==
  CASE e.t = "col" ->
         IF ColumnIndex(e.name) = 0
         THEN [err |-> "column name not found", e |-> e]
         ELSE [err |-> "", e |-> IVar(ColumnIndex(e.name) - 1, c)]
    [] e.t = "bin" ->
         LET l == ResolveNames(e.l, c)
             r == ResolveNames(e.r, c)
         IN IF l.err # "" THEN l
            ELSE IF r.err # "" THEN r
            ELSE [err |-> "", e |-> Bin(e.op, l.e, r.e)]
    [] OTHER -> [err |-> "", e |-> e]

\* name of the result column an expression produces
OutputName(e) == IF e.t = "col" THEN e.name ELSE "?column?"
ResultColumn(n) == [name |-> n, typ |-> "int"]

\* planner.computeRenderAllowingStars(target, ..., ivarHelper): the result
\* columns and the bound expressions of one target; a star expands to one
\* IndexedVar per table column.
computeRenderAllowingStars(target, c) ==
  IF target.t = "star"
  THEN [err |-> "",
        cols |-> [i \in 1..Len(SourceColumns) |-> ResultColumn(SourceColumns[i])],
        exprs |-> [i \in 1..Len(SourceColumns) |-> IVar(i - 1, c)]]
  ELSE LET res == ResolveNames(target, c)
       IN [err |-> res.err,
           cols |-> IF res.err = "" THEN <<ResultColumn(OutputName(target))>> ELSE <<>>,
           exprs |-> IF res.err = "" THEN <<res.e>> ELSE <<>>]

\* rh := &returningHelper{p: p}: the zero-valued struct
NewHelper ==
  [columns |-> NilSlice, exprs |-> NilSlice, rowCount |-> 0,
   source |-> NilSlice, curSourceRow |-> NilRef]

\* tree.MakeIndexedVarHelper(rh, len(tablecols)): the container the
\* IndexedVars produced by analysis link to.
\* (faulty variant: the leaves link to a copy of the struct, at another address)
ivarContainerCopy(rh) == rh + 1
ivarContainer(rh) == rh

\* (faulty variant: checks the first entry only)
AssertLoopFirstOnly(list, i) ==
  IF Len(list) = 0 THEN "" ELSE AssertNoAggregationOrWindowing(list[1])

RECURSIVE AssertLoop(_, _)
\* first loop of newReturningHelper: the first rejection in list order, ""
\* when no entry is rejected
AssertLoop(list, i) ==
  IF i > Len(list) THEN ""
  ELSE IF AssertNoAggregationOrWindowing(list[i]) # ""
       THEN AssertNoAggregationOrWindowing(list[i])
       ELSE AssertLoop(list, i + 1)

RECURSIVE RenderLoopIgnoreErr(_, _, _, _)
\* (faulty variant: a target that fails to bind is skipped and the loop
\* goes on)
RenderLoopIgnoreErr(list, i, a, h) ==
  IF i > Len(list) THEN [err |-> "", h |-> h]
  ELSE LET r == computeRenderAllowingStars(list[i], ivarContainer(a))
       IN IF r.err # "" THEN RenderLoopIgnoreErr(list, i + 1, a, h)
          ELSE RenderLoopIgnoreErr(list, i + 1, a,
                 [h EXCEPT !.columns = MkSlice(h.columns.elems \o r.cols),
                           !.exprs = MkSlice(h.exprs.elems \o r.exprs)])

RECURSIVE RenderLoopPrepend(_, _, _, _)
\* (faulty variant: the expressions of a target are put in front of those
\* of the earlier targets, the columns after)
RenderLoopPrepend(list, i, a, h) ==
  IF i > Len(list) THEN [err |-> "", h |-> h]
  ELSE LET r == computeRenderAllowingStars(list[i], ivarContainer(a))
       IN IF r.err # "" THEN [err |-> r.err, h |-> h]
          ELSE RenderLoopPrepend(list, i + 1, a,
                 [h EXCEPT !.columns = MkSlice(h.columns.elems \o r.cols),
                           !.exprs = MkSlice(r.exprs \o h.exprs.elems)])

RECURSIVE RenderLoop(_, _, _, _)
\* second loop of newReturningHelper: binds the targets in list order and
\* appends their columns and expressions to the helper h (at address a)
RenderLoop(list, i, a, h) ==
  IF i > Len(list) THEN [err |-> "", h |-> h]
  ELSE LET r == computeRenderAllowingStars(list[i], ivarContainer(a))
       IN IF r.err # "" THEN [err |-> r.err, h |-> h]
          ELSE RenderLoop(list, i + 1, a,
                 [h EXCEPT !.columns = MkSlice(h.columns.elems \o r.cols),
                           !.exprs = MkSlice(h.exprs.elems \o r.exprs)])


\* ------------------------------------------------------------------------
\* Evaluation
\* ------------------------------------------------------------------------
\* the values of a row reference; the nil slice has no values
RowVals(rws, r) == IF r = NilRef THEN <<>> ELSE rws[r]

\* returningHelper.IndexedVarEval(idx, ctx): rh.curSourceRow[idx].Eval(ctx);
\* a datum evaluates to itself, an index outside the slice panics.
IndexedVarEval(rh, rws, idx) ==
  IF idx + 1 > Len(RowVals(rws, rh.curSourceRow))
  THEN PanicD("index out of range")
  ELSE OkD(RowVals(rws, rh.curSourceRow)[idx + 1])

\* tree.Placeholder.Eval(ctx): the bound value, an error when unbound
PlaceholderEval(ctx, n) ==
  IF ctx[n].bound THEN OkD(ctx[n].v)
  ELSE ErrD("no value provided for placeholder")

\* tree.BinaryExpr: the operator applied to two evaluated operands
BinOp(op, l, r) ==
  CASE op = "+" -> OkD(l + r)
    [] op = "*" -> OkD(l * r)
    [] op = "/" -> IF r = 0 THEN ErrD("division by zero") ELSE OkD(l \div r)

RECURSIVE Eval(_, _, _, _)
\* tree.TypedExpr.Eval: an IndexedVar leaf asks the container it is linked
\* to (h[e.c]) for the value at its index; operands left to right, the
\* first failure is the result.
Eval(e, h, rws, ctx) ==
  CASE e.t = "ivar" -> IndexedVarEval(h[e.c], rws, e.idx)
    [] e.t = "num" -> OkD(e.v)
    [] e.t = "ph" -> PlaceholderEval(ctx, e.n)
    [] e.t = "bin" ->
         LET l == Eval(e.l, h, rws, ctx)
         IN IF l.kind # "ok" THEN l
            ELSE LET r == Eval(e.r, h, rws, ctx)
                 IN IF r.kind # "ok" THEN r ELSE BinOp(e.op, l.d, r.d)

RECURSIVE CookLoopSkipErr(_, _, _, _, _, _)
\* (faulty variant: drops the error of an expression and goes on with a
\* NULL in its place)
CookLoopSkipErr(h, rws, ctx, a, i, resRow) ==
  IF i > Len(h[a].exprs.elems)
  THEN [kind |-> "ok", msg |-> "", vals |-> resRow, n |-> i - 1]
  ELSE LET d == Eval(h[a].exprs.elems[i], h, rws, ctx)
       IN IF d.kind = "panic"
          THEN [kind |-> d.kind, msg |-> d.msg, vals |-> <<>>, n |-> i]
          ELSE CookLoopSkipErr(h, rws, ctx, a, i + 1, Append(resRow, d.d))

RECURSIVE CookLoop(_, _, _, _, _, _)
\* the loop of cookResultRow over rh.exprs: stops at the first expression
\* whose evaluation does not succeed; n is the number of expressions
\* evaluated
CookLoop(h, rws, ctx, a, i, resRow) ==
  IF i > Len(h[a].exprs.elems)
  THEN [kind |-> "ok", msg |-> "", vals |-> resRow, n |-> i - 1]
  ELSE LET d == Eval(h[a].exprs.elems[i], h, rws, ctx)
       IN IF d.kind # "ok"
          THEN [kind |-> d.kind, msg |-> d.msg, vals |-> <<>>, n |-> i]
          ELSE CookLoop(h, rws, ctx, a, i + 1, Append(resRow, d.d))

\* if rh.exprs == nil
IsPassThrough(rh) == rh.exprs.isNil

\* rh.rowCount++
\* (faulty variant: the row is not counted)
BumpRowCountNot(rh) == rh
BumpRowCount(rh) == [rh EXCEPT !.rowCount = @ + 1]

\* rh.curSourceRow = rowVals
\* (faulty variant: only the first row is installed)
InstallRowKeep(rh, rowVals) ==
  IF rh.curSourceRow = NilRef THEN [rh EXCEPT !.curSourceRow = rowVals] ELSE rh
InstallRow(rh, rowVals) == [rh EXCEPT !.curSourceRow = rowVals]

\* ------------------------------------------------------------------------
\* Serialization (distsqlplan.MakeExpression)
\* ------------------------------------------------------------------------
\* the absent expression (a nil tree.TypedExpr)
NilExpr == [t |-> "nil"]

\* The index maps explored: none supplied (nil), total maps, maps holding
\* the unmapped marker (a negative entry), maps shorter than the table.
IndexVarMaps ==
  { NilSlice, MkSlice(<<2, 5>>), MkSlice(<<11, 0>>), MkSlice(<<3, 3>>),
    MkSlice(<<>>), MkSlice(<<2>>), MkSlice(<<-1, 5>>), MkSlice(<<4, -1>>) }

\* Text is a sequence of one-character strings.
Digits == <<"0", "1", "2", "3", "4", "5", "6", "7", "8", "9">>

RECURSIVE FmtNat(_)
FmtNat(n) == IF n < 10 THEN <<Digits[n + 1]>>
             ELSE FmtNat(n \div 10) \o <<Digits[(n % 10) + 1]>>
\* "%d" / strconv.FormatInt(n, 10)
FmtInt(n) == IF n < 0 THEN <<"-">> \o FmtNat(0 - n) ELSE FmtNat(n)

\* Outcome of formatting: the text written, or a panic.
OkT(t) == [kind |-> "ok", msg |-> "", text |-> t]
PanicT(m) == [kind |-> "panic", msg |-> m, text |-> <<>>]

\* exprFmtFlagsBase: the placeholder interceptor evaluates the placeholder
\* and writes its value; a placeholder that does not evaluate panics.
\* (faulty variant: the placeholder is written as it is, "$n")
exprFmtFlagsBaseKeep(evalCtx, n) == OkT(<<"$">> \o FmtInt(n))
\* (faulty variant: the error of the placeholder is handed on as an error
\* value instead of a panic)
exprFmtFlagsBaseErrValue(evalCtx, n) ==
  IF PlaceholderEval(evalCtx, n).kind # "ok"
  THEN [kind |-> "err", msg |-> PlaceholderEval(evalCtx, n).msg, text |-> <<>>]
  ELSE OkT(FmtInt(PlaceholderEval(evalCtx, n).d))
exprFmtFlagsBase(evalCtx, n) ==
  IF PlaceholderEval(evalCtx, n).kind # "ok"
  THEN PanicT("failed to serialize placeholder")
  ELSE OkT(FmtInt(PlaceholderEval(evalCtx, n).d))

\* exprFmtFlagsNoMap: the IndexedVar interceptor without a map, "@%d" of
\* idx+1
\* (faulty variant: the ordinal is the 0-based index)
exprFmtFlagsNoMapZeroBased(idx) == OkT(<<"@">> \o FmtInt(idx))
\* (faulty variant: the variable is written as the value it has in the row
\* the container holds, the way a placeholder is)
exprFmtFlagsNoMapEval(idx) ==
  IF IndexedVarEval(helpers[1], rows, idx).kind = "ok"
  THEN OkT(FmtInt(IndexedVarEval(helpers[1], rows, idx).d))
  ELSE PanicT(IndexedVarEval(helpers[1], rows, idx).msg)
exprFmtFlagsNoMap(idx) == OkT(<<"@">> \o FmtInt(idx + 1))

\* the IndexedVar interceptor of MakeExpression with a map: indexVarMap[idx]
\* (an index outside the slice panics in the runtime), a negative entry
\* panics as unmapped, otherwise "@%d" of remappedIdx+1
\* (faulty variant: an index without entry is written unmapped)
remapIndexedVarFallBack(indexVarMap, idx) ==
  IF idx + 1 > Len(indexVarMap.elems) THEN exprFmtFlagsNoMap(idx)
  ELSE IF indexVarMap.elems[idx + 1] < 0 THEN exprFmtFlagsNoMap(idx)
  ELSE OkT(<<"@">> \o FmtInt(indexVarMap.elems[idx + 1] + 1))
remapIndexedVar(indexVarMap, idx) ==
  IF idx + 1 > Len(indexVarMap.elems) THEN PanicT("index out of range")
  ELSE IF indexVarMap.elems[idx + 1] < 0 THEN PanicT("unmapped index")
  ELSE OkT(<<"@">> \o FmtInt(indexVarMap.elems[idx + 1] + 1))

\* if indexVarMap == nil { f = exprFmtFlagsNoMap } else { f = remapping }
\* (faulty variant: the map is ignored)
indexedVarFormatNoMapOnly(indexVarMap, idx) == exprFmtFlagsNoMap(idx)
indexedVarFormat(indexVarMap, idx) ==
  IF indexVarMap.isNil THEN exprFmtFlagsNoMap(idx)
  ELSE remapIndexedVar(indexVarMap, idx)

IsOperatorExpr(e) == e.t = "bin"

RECURSIVE FormatNode(_, _, _)
\* tree.FormatNode(&buf, f, expr) with the two interceptors installed: an
\* IndexedVar and a Placeholder are written by their interceptor, a datum by
\* its digits, a binary expression as left, padded operator, right with an
\* operand that is itself an operator expression in parentheses.  A panic
\* ends the formatting.
FormatNode(e, evalCtx, indexVarMap) ==
  CASE e.t = "ivar" -> indexedVarFormat(indexVarMap, e.idx)
    [] e.t = "ph" -> exprFmtFlagsBase(evalCtx, e.n)
    [] e.t = "num" -> OkT(FmtInt(e.v))
    [] e.t = "bin" ->
         LET l == FormatNode(e.l, evalCtx, indexVarMap)
             r == FormatNode(e.r, evalCtx, indexVarMap)
             lt == IF IsOperatorExpr(e.l) THEN <<"(">> \o l.text \o <<")">> ELSE l.text
             rt == IF IsOperatorExpr(e.r) THEN <<"(">> \o r.text \o <<")">> ELSE r.text
         IN IF l.kind # "ok" THEN l
            ELSE IF r.kind # "ok" THEN r
            ELSE OkT(lt \o <<" ", e.op, " ">> \o rt)

\* MakeExpression(expr, evalCtx, indexVarMap): the empty Expression for a
\* nil expr, otherwise Expression{Expr: buf.String()}; a panic of an
\* interceptor leaves the call without a result.
\* (faulty variant: no nil check, formatting the nil expression dereferences
\* a nil pointer)
MakeExpressionNoNilCheck(expr, evalCtx, indexVarMap) ==
  IF expr = NilExpr THEN PanicT("nil pointer dereference")
  ELSE FormatNode(expr, evalCtx, indexVarMap)
MakeExpression(expr, evalCtx, indexVarMap) ==
  IF expr = NilExpr THEN OkT(<<>>)
  ELSE FormatNode(expr, evalCtx, indexVarMap)

\* ------------------------------------------------------------------------
\* What an operation hands back to its caller
\* ------------------------------------------------------------------------
NoRet ==
  [op |-> "none", kind |-> "none", msg |-> "",
   clause |-> [kind |-> "none", list |-> <<>>],
   rh |-> NilRef, arg |-> NilRef, row |-> NilRef, evald |-> 0, cnt0 |-> 0,
   expr |-> NilExpr, map |-> NilSlice, wire |-> <<>>]

SumMade(c) == LET RECURSIVE S(_)
                  S(i) == IF i = 0 THEN 0 ELSE c[i].made + S(i - 1)
              IN S(Len(c))

\* no status message call under way
NoPb == [op |-> "none"]

\* the concurrent callers of MakeExpression
Encoders == 1..NEncoders
IdleEnc == [pc |-> "idle", expr |-> NilExpr, map |-> NilSlice, todo |-> <<>>,
            kind |-> "none", msg |-> "", wire |-> <<>>]

Init ==
  /\ helpers = <<>>
  /\ returned = {}
  /\ rows = InputRows
  /\ placeholders \in PlaceholderEnvs
  /\ ret = NoRet
  /\ calls = <<>>
  /\ enc = [p \in Encoders |-> IdleEnc]
  /\ bufs = [p \in Encoders |-> <<>>]
  /\ pb = NoPb

\* ------------------------------------------------------------------------
\* planner.newReturningHelper
\* ------------------------------------------------------------------------
\* (faulty variant: the unexpected clause is reported through the error
\* return value)
UnexpectedClauseAsErr(r) ==
  [h |-> NewHelper, kind |-> "err",
   msg |-> "unexpected ReturningClause type", rh |-> NilRef]
\* default branch of the type switch:
\* panic(errors.Errorf("unexpected ReturningClause type: %T", t))
UnexpectedClause(r) ==
  [h |-> NewHelper, kind |-> "panic",
   msg |-> "unexpected ReturningClause type", rh |-> NilRef]

RECURSIVE CheckAndRenderLoop(_, _, _, _)
\* (faulty variant: one loop, each entry is checked and then bound before
\* the next entry is looked at)
CheckAndRenderLoop(list, i, a, h) ==
  IF i > Len(list) THEN [err |-> "", h |-> h]
  ELSE IF AssertNoAggregationOrWindowing(list[i]) # ""
  THEN [err |-> AssertNoAggregationOrWindowing(list[i]), h |-> h]
  ELSE LET r == computeRenderAllowingStars(list[i], ivarContainer(a))
       IN IF r.err # "" THEN [err |-> r.err, h |-> h]
          ELSE CheckAndRenderLoop(list, i + 1, a,
                 [h EXCEPT !.columns = MkSlice(h.columns.elems \o r.cols),
                           !.exprs = MkSlice(h.exprs.elems \o r.exprs)])

BuildHelperOneLoop(a, r) ==
  LET built == CheckAndRenderLoop(r.list, 1, a,
                 [NewHelper EXCEPT !.columns = MkSlice(<<>>),
                                   !.source = MkSlice(SourceColumns),
                                   !.exprs = MkSlice(<<>>)])
  IN CASE r.kind \in {"nothing", "none"} ->
            [h |-> NewHelper, kind |-> "ok", msg |-> "", rh |-> a]
       [] r.kind \notin {"exprs", "nothing", "none"} ->
            [h |-> NewHelper, kind |-> "panic",
             msg |-> "unexpected ReturningClause type", rh |-> NilRef]
       [] r.kind = "exprs" /\ built.err # "" ->
            [h |-> built.h, kind |-> "err", msg |-> built.err, rh |-> NilRef]
       [] OTHER ->
            [h |-> built.h, kind |-> "ok", msg |-> "", rh |-> a]

\* The helper is allocated at address a; ReturningNothing and
\* NoReturningClause return it as it is, any other non-list clause panics,
\* a list is checked for aggregates and windows and then bound.  h is the
\* struct at address a when the function ends, rh the pointer returned.
BuildHelper(a, r) ==
  LET rej == AssertLoop(r.list, 1)
      built == RenderLoop(r.list, 1, a,
                 [NewHelper EXCEPT !.columns = MkSlice(<<>>),
                                   !.source = MkSlice(SourceColumns),
                                   !.exprs = MkSlice(<<>>)])
  IN CASE r.kind \in {"nothing", "none"} ->
            [h |-> NewHelper, kind |-> "ok", msg |-> "", rh |-> a]
       [] r.kind \notin {"exprs", "nothing", "none"} -> UnexpectedClause(r)
       [] r.kind = "exprs" /\ rej # "" ->
            [h |-> NewHelper, kind |-> "err", msg |-> rej, rh |-> NilRef]
       [] r.kind = "exprs" /\ rej = "" /\ built.err # "" ->
            [h |-> built.h, kind |-> "err", msg |-> built.err, rh |-> NilRef]
       [] OTHER ->
            [h |-> built.h, kind |-> "ok", msg |-> "", rh |-> a]

newReturningHelper(r) ==
  LET a == Len(helpers) + 1
      out == BuildHelper(a, r)
  IN /\ Len(helpers) < MaxHelpers
     /\ helpers' = Append(helpers, out.h)
     /\ calls' = Append(calls, [clause |-> r, made |-> 0, ok |-> 0, log |-> <<>>])
     /\ returned' = IF out.rh # NilRef THEN returned \cup {out.rh} ELSE returned
     /\ ret' = [NoRet EXCEPT !.op = "new", !.kind = out.kind, !.msg = out.msg,
                             !.clause = r, !.rh = out.rh]
     /\ UNCHANGED <<rows, placeholders, enc, bufs, pb>>

\* ------------------------------------------------------------------------
\* returningHelper.cookResultRow
\* ------------------------------------------------------------------------
\* the row and the outcome of one call, as the caller sees them
LogEntry(rowVals, kind, msg, vals) ==
  [arg |-> rowVals, kind |-> kind, msg |-> msg, vals |-> vals]

\* (faulty variant: the expressions are evaluated before the row of the call
\* is installed)
CookRowLate(h, rws, ctx, a, rowVals) ==
  [h |-> [h EXCEPT ![a] = InstallRow(@, rowVals)],
   res |-> CookLoop(h, rws, ctx, a, 1, <<>>)]
\* (faulty variant: a failed call cuts rh.exprs back to the expressions
\* before the failing one)
CookRowTruncate(h, rws, ctx, a, rowVals) ==
  LET hi == [h EXCEPT ![a] = InstallRow(@, rowVals)]
      res == CookLoop(hi, rws, ctx, a, 1, <<>>)
  IN [h |-> IF res.kind = "ok" THEN hi
            ELSE [hi EXCEPT ![a].exprs = MkSlice(SubSeq(@.elems, 1, res.n - 1))],
      res |-> res]
\* cookResultRow with expressions: the row is installed, then the
\* expressions are evaluated
CookRow(h, rws, ctx, a, rowVals) ==
  [h |-> [h EXCEPT ![a] = InstallRow(@, rowVals)],
   res |-> CookLoop([h EXCEPT ![a] = InstallRow(@, rowVals)], rws, ctx, a, 1, <<>>)]

cookResultRow(a, rowVals) ==
  /\ SumMade(calls) < MaxCalls
  /\ IF IsPassThrough(helpers[a])
     THEN /\ helpers' = [helpers EXCEPT ![a] = BumpRowCount(@)]
          /\ rows' = rows
          /\ calls' = [calls EXCEPT ![a].made = @ + 1, ![a].ok = @ + 1,
                                    ![a].log = Append(@, LogEntry(rowVals, "ok", "",
                                                                  rows[rowVals]))]
          /\ ret' = [NoRet EXCEPT !.op = "cook", !.kind = "ok", !.rh = a,
                                  !.arg = rowVals, !.row = rowVals,
                                  !.cnt0 = helpers[a].rowCount]
     ELSE LET h == CookRow(helpers, rows, placeholders, a, rowVals).h
              res == CookRow(helpers, rows, placeholders, a, rowVals).res
          IN /\ helpers' = h
             /\ rows' = IF res.kind = "ok" THEN Append(rows, res.vals) ELSE rows
             /\ calls' = [calls EXCEPT ![a].made = @ + 1,
                                       ![a].ok = IF res.kind = "ok" THEN @ + 1 ELSE @,
                                       ![a].log = Append(@, LogEntry(rowVals, res.kind,
                                                                     res.msg, res.vals))]
             /\ ret' = [NoRet EXCEPT !.op = "cook", !.kind = res.kind,
                                     !.msg = res.msg, !.rh = a, !.arg = rowVals,
                                     !.row = IF res.kind = "ok"
                                             THEN Len(rows) + 1 ELSE NilRef,
                                     !.evald = res.n,
                                     !.cnt0 = helpers[a].rowCount]
  /\ UNCHANGED <<returned, placeholders, enc, bufs, pb>>

Next ==
  \/ \E r \in Clauses : newReturningHelper(r)
  \/ \E a \in returned, rowVals \in 1..Len(InputRows) : cookResultRow(a, rowVals)

\* The binder and the row evaluation loop.
Spec == Init /\ [][Next]_vars

\* ------------------------------------------------------------------------
\* A caller of MakeExpression
\* ------------------------------------------------------------------------
\* the expressions a planner can hand to MakeExpression: nil, or a bound
\* expression of a helper it holds
Encodable ==
  {NilExpr} \cup UNION { {helpers[a].exprs.elems[i] : i \in 1..Len(helpers[a].exprs.elems)}
                         : a \in returned }

MakeExpressionCall(expr, indexVarMap) ==
  LET res == MakeExpression(expr, placeholders, indexVarMap)
  IN /\ ret' = [NoRet EXCEPT !.op = "encode", !.kind = res.kind, !.msg = res.msg,
                             !.expr = expr, !.map = indexVarMap,
                             !.wire = res.text]
     /\ UNCHANGED <<helpers, returned, rows, placeholders, calls, enc, bufs, pb>>

\* The state after one newReturningHelper call that returned a helper.
InitEnc ==
  /\ \E r \in Clauses :
       /\ BuildHelper(1, r).rh # NilRef
       /\ helpers = <<BuildHelper(1, r).h>>
       /\ calls = <<[clause |-> r, made |-> 0, ok |-> 0, log |-> <<>>]>>
  /\ returned = {1}
  /\ rows = InputRows
  /\ placeholders \in PlaceholderEnvs
  /\ ret = NoRet
  /\ enc = [p \in Encoders |-> IdleEnc]
  /\ bufs = [p \in Encoders |-> <<>>]
  /\ pb = NoPb

NextEnc ==
  \/ \E a \in returned, rowVals \in 1..Len(InputRows) : cookResultRow(a, rowVals)
  \/ \E expr \in Encodable, m \in IndexVarMaps : MakeExpressionCall(expr, m)

\* Serialization of the bound expressions of a helper, between the calls of
\* its row evaluation loop.
SpecEnc == InitEnc /\ [][NextEnc]_vars

\* The state after one newReturningHelper call, whatever its outcome: ret is
\* what that call handed back.
InitErr ==
  /\ \E r \in Clauses :
       /\ helpers = <<BuildHelper(1, r).h>>
       /\ calls = <<[clause |-> r, made |-> 0, ok |-> 0, log |-> <<>>]>>
       /\ returned = IF BuildHelper(1, r).rh # NilRef THEN {1} ELSE {}
       /\ ret = [NoRet EXCEPT !.op = "new", !.kind = BuildHelper(1, r).kind,
                              !.msg = BuildHelper(1, r).msg, !.clause = r,
                              !.rh = BuildHelper(1, r).rh]
  /\ rows = InputRows
  /\ placeholders \in PlaceholderEnvs
  /\ enc = [p \in Encoders |-> IdleEnc]
  /\ bufs = [p \in Encoders |-> <<>>]
  /\ pb = NoPb

\* One construction, failed or not, followed by row evaluation and
\* serialization: every operation that can detect a failure.
SpecErr == InitErr /\ [][NextEnc]_vars


\* ------------------------------------------------------------------------
\* Concurrent MakeExpression calls on one tree
\* ------------------------------------------------------------------------
\* Each call runs in steps: one step per node tree.FormatNode visits and per
\* piece of text it writes.  todo is the rest of the traversal: expressions
\* still to format ("e") and text still to write ("s").
ItemE(e) == [k |-> "e", e |-> e, s |-> <<>>]
ItemS(t) == [k |-> "s", e |-> NilExpr, s |-> t]

\* the maps the concurrent callers pass
ConcMaps == { NilSlice, MkSlice(<<2, 5>>), MkSlice(<<4, -1>>) }

\* var buf bytes.Buffer: the buffer a call writes to is its own
\* (faulty variant: one buffer for all calls)
bufOfShared(p) == 1
bufOf(p) == p

\* an operand of a binary expression, in parentheses when it is an operator
\* expression itself
Operand(e) ==
  IF IsOperatorExpr(e) THEN <<ItemS(<<"(">>), ItemE(e), ItemS(<<")">>)>>
  ELSE <<ItemE(e)>>

\* MakeExpression up to FormatNode: the nil check, the choice of the
\* interceptors and the empty buffer
EncStart(p, indexVarMap) ==
  /\ enc[p].pc = "idle"
  /\ IF enc[p].expr = NilExpr
     THEN /\ enc' = [enc EXCEPT ![p].pc = "done", ![p].map = indexVarMap,
                                ![p].kind = "ok"]
          /\ bufs' = bufs
     ELSE /\ enc' = [enc EXCEPT ![p].pc = "fmt", ![p].map = indexVarMap,
                                ![p].todo = <<ItemE(enc[p].expr)>>]
          /\ bufs' = [bufs EXCEPT ![bufOf(p)] = <<>>]
  /\ UNCHANGED <<helpers, returned, rows, placeholders, ret, calls, pb>>

\* one step of tree.FormatNode
EncStep(p) ==
  /\ enc[p].pc = "fmt"
  /\ enc[p].todo # <<>>
  /\ LET item == Head(enc[p].todo)
         rest == Tail(enc[p].todo)
         e == item.e
         out == CASE item.k = "s" -> OkT(item.s)
                  [] e.t = "ivar" -> indexedVarFormat(enc[p].map, e.idx)
                  [] e.t = "ph" -> exprFmtFlagsBase(placeholders, e.n)
                  [] e.t = "num" -> OkT(FmtInt(e.v))
                  [] OTHER -> OkT(<<>>)
     IN IF out.kind = "panic"
        THEN /\ enc' = [enc EXCEPT ![p].pc = "panicked", ![p].todo = <<>>,
                                   ![p].kind = "panic", ![p].msg = out.msg]
             /\ bufs' = bufs
        ELSE /\ enc' = [enc EXCEPT ![p].todo =
                          IF item.k = "e" /\ e.t = "bin"
                          THEN Operand(e.l) \o <<ItemS(<<" ", e.op, " ">>)>>
                               \o Operand(e.r) \o rest
                          ELSE rest]
             /\ bufs' = [bufs EXCEPT ![bufOf(p)] = @ \o out.text]
  /\ UNCHANGED <<helpers, returned, rows, placeholders, ret, calls, pb>>

\* return distsqlrun.Expression{Expr: buf.String()}
EncFinish(p) ==
  /\ enc[p].pc = "fmt"
  /\ enc[p].todo = <<>>
  /\ enc' = [enc EXCEPT ![p].pc = "done", ![p].kind = "ok",
                        ![p].wire = bufs[bufOf(p)]]
  /\ UNCHANGED <<helpers, returned, rows, placeholders, ret, calls, bufs, pb>>

\* The state after one newReturningHelper call that returned a helper, with
\* one expression (nil, or one of the helper's) handed to every caller.
InitConc ==
  /\ \E r \in Clauses :
       /\ BuildHelper(1, r).rh # NilRef
       /\ helpers = <<BuildHelper(1, r).h>>
       /\ calls = <<[clause |-> r, made |-> 0, ok |-> 0, log |-> <<>>]>>
       /\ \E e \in {NilExpr} \cup Range(BuildHelper(1, r).h.exprs.elems) :
            enc = [p \in Encoders |-> [IdleEnc EXCEPT !.expr = e]]
  /\ returned = {1}
  /\ rows = InputRows
  /\ placeholders \in PlaceholderEnvs
  /\ ret = NoRet
  /\ bufs = [p \in Encoders |-> <<>>]
  /\ pb = NoPb

NextConc ==
  \/ \E p \in Encoders, m \in ConcMaps : EncStart(p, m)
  \/ \E p \in Encoders : EncStep(p)
  \/ \E p \in Encoders : EncFinish(p)

\* MakeExpression calls running concurrently on one bound expression.
SpecConc == InitConc /\ [][NextConc]_vars

\* curSourceRow and rowCount of every helper
RowState(h) == [a \in 1..Len(h) |-> <<h[a].curSourceRow, h[a].rowCount>>]

\* A MakeExpression call whose caller keeps what it passed and what it got
\* (enc[1]) together with the row state of the helpers at that moment
\* (bufs[1]), to hold later calls against it.
MakeExpressionKept(expr, indexVarMap) ==
  LET res == MakeExpression(expr, placeholders, indexVarMap)
  IN /\ enc[1].pc = "idle"
     /\ ret' = [NoRet EXCEPT !.op = "encode", !.kind = res.kind, !.msg = res.msg,
                             !.expr = expr, !.map = indexVarMap,
                             !.wire = res.text]
     /\ enc' = [enc EXCEPT ![1] = [IdleEnc EXCEPT !.pc = "kept", !.expr = expr,
                                                  !.map = indexVarMap,
                                                  !.kind = res.kind,
                                                  !.msg = res.msg,
                                                  !.wire = res.text]]
     /\ bufs' = [bufs EXCEPT ![1] = RowState(helpers)]
     /\ UNCHANGED <<helpers, returned, rows, placeholders, calls, pb>>

\* the caller repeats the call it kept, with the same expression and map
MakeExpressionAgain ==
  /\ enc[1].pc = "kept"
  /\ MakeExpressionCall(enc[1].expr, enc[1].map)

NextPure ==
  \/ \E a \in returned, rowVals \in 1..Len(InputRows) : cookResultRow(a, rowVals)
  \/ \E expr \in Encodable, m \in ConcMaps : MakeExpressionKept(expr, m)
  \/ MakeExpressionAgain

\* Serialization before, between and after the calls of the row evaluation
\* loop: the first MakeExpression call is kept and repeated later.
SpecPure == InitEnc /\ [][NextPure]_vars

\* ------------------------------------------------------------------------
\* 64-bit integers
\* ------------------------------------------------------------------------
\* A uint64 is its four 16-bit limbs, least significant first; an int or
\* int64 is the same bits read in two's complement.
Lo16(x) == x % 65536
Hi16(x) == x \div 65536

\* uint64(n) of an int 0 <= n < 2^31
U64(n) == <<Lo16(n), Hi16(n), 0, 0>>

\* a + b, wrapping at 2^64
Add64(a, b) ==
  LET s1 == a[1] + b[1]
      s2 == a[2] + b[2] + Hi16(s1)
      s3 == a[3] + b[3] + Hi16(s2)
      s4 == a[4] + b[4] + Hi16(s3)
  IN <<Lo16(s1), Lo16(s2), Lo16(s3), Lo16(s4)>>

\* v >> n for 0 < n < 16
Shr64(v, n) ==
  [i \in 1..4 |-> (v[i] \div (2 ^ n))
                  + (IF i < 4 THEN (v[i + 1] % (2 ^ n)) * (2 ^ (16 - n)) ELSE 0)]

\* uint64(x) << s for 0 <= x < 128 and 0 <= s < 64; the bits shifted past
\* bit 63 are lost
Shl64(x, s) ==
  LET y == x * (2 ^ (s % 16))
  IN [i \in 1..4 |-> IF i = (s \div 16) + 1 THEN Lo16(y)
                      ELSE IF i = (s \div 16) + 2 THEN Hi16(y)
                      ELSE 0]

RECURSIVE BitOr(_, _)
\* x | y of two limbs
BitOr(x, y) ==
  IF x = 0 THEN y
  ELSE IF y = 0 THEN x
  ELSE 2 * BitOr(x \div 2, y \div 2) + (IF x % 2 = 1 \/ y % 2 = 1 THEN 1 ELSE 0)

\* a | b
Or64(a, b) == [i \in 1..4 |-> BitOr(a[i], b[i])]

IsZero64(v) == v = <<0, 0, 0, 0>>
\* v < 0, v read as int64
IsNeg64(v) == v[4] >= 32768
\* v is an int from 0 to 2^31 - 1
IsSmall64(v) == v[3] = 0 /\ v[4] = 0 /\ v[2] < 32768
\* the int a small v is
ToInt(v) == v[1] + v[2] * 65536
\* a < b, both read as int64
Less64(a, b) ==
  IF IsNeg64(a) # IsNeg64(b) THEN IsNeg64(a)
  ELSE \E i \in 1..4 : a[i] < b[i] /\ \A j \in (i + 1)..4 : a[j] = b[j]
\* int32(v): the low 32 bits in two's complement
Int32(v) == IF v[2] >= 32768 THEN (v[2] - 65536) * 65536 + v[1]
            ELSE v[2] * 65536 + v[1]

RECURSIVE sovStatus(_)
\* sovStatus(x): counts one, shifts by seven bits, until nothing is left
sovStatus(x) ==
  IF IsZero64(Shr64(x, 7)) THEN 1 ELSE 1 + sovStatus(Shr64(x, 7))

\* ------------------------------------------------------------------------
\* StoreStatus / NodeStatus: Marshal
\* ------------------------------------------------------------------------
\* A writer is the slice a MarshalTo writes into: dAtA holds the bytes written
\* so far (dAtA[:i]), cap is len(dAtA) of the slice as allocated, i is the
\* next index (0-based), kind tells whether a write has panicked.  A panic
\* ends the call: every later step leaves a panicked writer as it is.
Writer(size) == [dAtA |-> <<>>, cap |-> size, i |-> 0, kind |-> "ok"]

\* dAtA[i] = b; i++ : an index outside the slice panics
Put(w, b) ==
  IF w.kind # "ok" THEN w
  ELSE IF w.i >= w.cap THEN [w EXCEPT !.kind = "panic"]
  ELSE [w EXCEPT !.dAtA = Append(@, b), !.i = @ + 1]

\* the bytes written at dAtA[i], dAtA[i+1], ... ; i += len(bytes) : panics
\* when they do not fit
PutAll(w, bytes) ==
  IF w.kind # "ok" THEN w
  ELSE IF w.i + Len(bytes) > w.cap THEN [w EXCEPT !.kind = "panic"]
  ELSE [w EXCEPT !.dAtA = @ \o bytes, !.i = @ + Len(bytes)]

\* i += copy(dAtA[i:], k): copies as many bytes as fit, without panic
Copy(w, bytes) ==
  IF w.kind # "ok" THEN w
  ELSE IF w.i + Len(bytes) <= w.cap THEN PutAll(w, bytes)
  ELSE PutAll(w, SubSeq(bytes, 1, w.cap - w.i))

\* the eight bytes of v, least significant first
LittleEndian(v) ==
  <<v[1] % 256, v[1] \div 256, v[2] % 256, v[2] \div 256,
    v[3] % 256, v[3] \div 256, v[4] % 256, v[4] \div 256>>

\* encoding_binary.LittleEndian.PutUint64(dAtA[i:], v); i += 8 : panics when
\* fewer than eight bytes are left
PutUint64(w, v) ==
  IF w.kind # "ok" THEN w
  ELSE IF w.i + 8 > w.cap THEN [w EXCEPT !.kind = "panic"]
  ELSE PutAll(w, LittleEndian(v))

RECURSIVE encodeVarintStatusOffByOne(_, _)
\* (faulty variant: the loop test is v > 1<<7)
encodeVarintStatusOffByOne(w, v) ==
  IF w.kind = "ok" /\ v # U64(128) /\ ~IsZero64(Shr64(v, 7))
  THEN encodeVarintStatusOffByOne(Put(w, (v[1] % 128) + 128), Shr64(v, 7))
  ELSE Put(w, v[1] % 256)

RECURSIVE encodeVarintStatus(_, _)
\* encodeVarintStatus(dAtA, offset, v), offset being w.i: seven bits per
\* byte with the continuation bit while v >= 1<<7, then the last byte
encodeVarintStatus(w, v) ==
  IF w.kind = "ok" /\ ~IsZero64(Shr64(v, 7))
  THEN encodeVarintStatus(Put(w, (v[1] % 128) + 128), Shr64(v, 7))
  ELSE Put(w, v[1] % 256)

\* m.Desc.Size(), m.BuildInfo.Size(): a descriptor is known by the length
\* of its encoding
DescSize(d) == d
\* m.Desc.MarshalTo(dAtA[i:]); i += n : writes the encoding of the descriptor
DescMarshalTo(w, d) == PutAll(w, [k \in 1..d |-> 221])

\* byte strings in the order of sortkeys.Strings
StringLess(a, b) ==
  \/ \E k \in 1..Len(a) :
       /\ k <= Len(b) /\ a[k] < b[k]
       /\ \A j \in 1..(k - 1) : a[j] = b[j]
  \/ Len(a) < Len(b) /\ \A j \in 1..Len(a) : a[j] = b[j]

RECURSIVE SortedKeys(_)
\* the keys of a map with string keys, sorted
SortedKeys(keys) ==
  IF keys = {} THEN <<>>
  ELSE LET k == CHOOSE x \in keys : \A y \in keys \ {x} : StringLess(x, y)
       IN <<k>> \o SortedKeys(keys \ {k})

\* mapEntrySize / mapSize of a Metrics entry
MetricsEntrySize(k) == 1 + Len(k) + sovStatus(U64(Len(k))) + 1 + 8

RECURSIVE SumOver(_)
\* n += f[x] over the elements x of the domain of f, in any order
SumOver(f) ==
  IF DOMAIN f = {} THEN 0
  ELSE LET x == CHOOSE y \in DOMAIN f : TRUE
       IN f[x] + SumOver([y \in DOMAIN f \ {x} |-> f[y]])

\* StoreStatus.Size
StoreStatusSize(m) ==
  LET l == DescSize(m.Desc)
  IN 1 + l + sovStatus(U64(l))
     + SumOver([k \in DOMAIN m.Metrics |->
                  MetricsEntrySize(k) + 1 + sovStatus(U64(MetricsEntrySize(k)))])

RECURSIVE MetricsMarshalTo(_, _, _, _, _)
\* the loop over the sorted keys of m.Metrics, tag being the field's tag byte
MetricsMarshalTo(w, metrics, keys, k, tag) ==
  IF w.kind # "ok" \/ k > Len(keys) THEN w
  ELSE LET w1 == encodeVarintStatus(Put(w, tag), U64(MetricsEntrySize(keys[k])))
           w2 == encodeVarintStatus(Put(w1, 10), U64(Len(keys[k])))
           w3 == Put(Copy(w2, keys[k]), 17)
       IN MetricsMarshalTo(PutUint64(w3, metrics[keys[k]]), metrics, keys, k + 1, tag)

\* StoreStatus.MarshalTo(dAtA[i:])
StoreStatusMarshalTo(w, m) ==
  LET w1 == encodeVarintStatus(Put(w, 10), U64(DescSize(m.Desc)))
      w2 == DescMarshalTo(w1, m.Desc)
  IN MetricsMarshalTo(w2, m.Metrics, SortedKeys(DOMAIN m.Metrics), 1, 18)

\* Marshal: a buffer of Size() bytes, MarshalTo, and dAtA[:n]
MarshalResult(w) ==
  [kind |-> w.kind, size |-> w.cap, n |-> w.i,
   out |-> IF w.kind = "ok" THEN w.dAtA ELSE <<>>]

StoreStatusMarshal(m) ==
  MarshalResult(StoreStatusMarshalTo(Writer(StoreStatusSize(m)), m))

\* uint64(k) of an int32 k: the sign is extended
U64OfInt32(k) ==
  IF k >= 0 THEN U64(k)
  ELSE <<k % 65536, (k \div 65536) % 65536, 65535, 65535>>

\* mapEntrySize / mapSize of a Latencies entry
LatenciesEntrySize(k, v) == 1 + sovStatus(U64OfInt32(k)) + 1 + sovStatus(v)

RECURSIVE SumSeq(_, _)
\* n += f[k] over the elements of a slice
SumSeq(f, k) == IF k > Len(f) THEN 0 ELSE f[k] + SumSeq(f, k + 1)

\* NodeStatus.Size
NodeStatusSize(m) ==
  LET l1 == DescSize(m.Desc)
      l2 == DescSize(m.BuildInfo)
  IN (1 + l1 + sovStatus(U64(l1)))
     + (1 + l2 + sovStatus(U64(l2)))
     + (IF ~IsZero64(m.StartedAt) THEN 1 + sovStatus(m.StartedAt) ELSE 0)
     + (IF ~IsZero64(m.UpdatedAt) THEN 1 + sovStatus(m.UpdatedAt) ELSE 0)
     + SumOver([k \in DOMAIN m.Metrics |->
                  MetricsEntrySize(k) + 1 + sovStatus(U64(MetricsEntrySize(k)))])
     + SumSeq([k \in 1..Len(m.StoreStatuses) |->
                 1 + StoreStatusSize(m.StoreStatuses[k])
                   + sovStatus(U64(StoreStatusSize(m.StoreStatuses[k])))], 1)
     + SumSeq([k \in 1..Len(m.Args) |->
                 1 + Len(m.Args[k]) + sovStatus(U64(Len(m.Args[k])))], 1)
     + SumSeq([k \in 1..Len(m.Env) |->
                 1 + Len(m.Env[k]) + sovStatus(U64(Len(m.Env[k])))], 1)
     + SumOver([k \in DOMAIN m.Latencies |->
                  LatenciesEntrySize(k, m.Latencies[k]) + 1
                    + sovStatus(U64(LatenciesEntrySize(k, m.Latencies[k])))])

RECURSIVE StoreStatusesMarshalTo(_, _, _)
\* the loop over m.StoreStatuses
StoreStatusesMarshalTo(w, list, k) ==
  IF w.kind # "ok" \/ k > Len(list) THEN w
  ELSE StoreStatusesMarshalTo(
         StoreStatusMarshalTo(
           encodeVarintStatus(Put(w, 50), U64(StoreStatusSize(list[k]))), list[k]),
         list, k + 1)

RECURSIVE PutLen(_, _)
\* the varint loop written out in the Args and Env loops, on the int l
PutLen(w, l) ==
  IF w.kind = "ok" /\ l >= 128 THEN PutLen(Put(w, (l % 128) + 128), l \div 128)
  ELSE Put(w, l)

RECURSIVE StringsMarshalTo(_, _, _, _)
\* the loops over m.Args and m.Env, tag being the field's tag byte
StringsMarshalTo(w, list, k, tag) ==
  IF w.kind # "ok" \/ k > Len(list) THEN w
  ELSE StringsMarshalTo(Copy(PutLen(Put(w, tag), Len(list[k])), list[k]),
                        list, k + 1, tag)

RECURSIVE SortedInt32s(_)
\* the keys of m.Latencies in the order of sortkeys.Int32s
SortedInt32s(keys) ==
  IF keys = {} THEN <<>>
  ELSE LET k == CHOOSE x \in keys : \A y \in keys : x <= y
       IN <<k>> \o SortedInt32s(keys \ {k})

RECURSIVE LatenciesMarshalTo(_, _, _, _)
\* the loop over the sorted keys of m.Latencies
LatenciesMarshalTo(w, lat, keys, k) ==
  IF w.kind # "ok" \/ k > Len(keys) THEN w
  ELSE LET w1 == encodeVarintStatus(Put(w, 74),
                   U64(LatenciesEntrySize(keys[k], lat[keys[k]])))
           w2 == encodeVarintStatus(Put(w1, 8), U64OfInt32(keys[k]))
       IN LatenciesMarshalTo(encodeVarintStatus(Put(w2, 16), lat[keys[k]]),
                             lat, keys, k + 1)

\* NodeStatus.MarshalTo
NodeStatusMarshalTo(w, m) ==
  LET w1 == DescMarshalTo(encodeVarintStatus(Put(w, 10), U64(DescSize(m.Desc))),
                          m.Desc)
      w2 == DescMarshalTo(encodeVarintStatus(Put(w1, 18), U64(DescSize(m.BuildInfo))),
                          m.BuildInfo)
      w3 == IF ~IsZero64(m.StartedAt)
            THEN encodeVarintStatus(Put(w2, 24), m.StartedAt) ELSE w2
      w4 == IF ~IsZero64(m.UpdatedAt)
            THEN encodeVarintStatus(Put(w3, 32), m.UpdatedAt) ELSE w3
      w5 == MetricsMarshalTo(w4, m.Metrics, SortedKeys(DOMAIN m.Metrics), 1, 42)
      w6 == StoreStatusesMarshalTo(w5, m.StoreStatuses, 1)
      w7 == StringsMarshalTo(w6, m.Args, 1, 58)
      w8 == StringsMarshalTo(w7, m.Env, 1, 66)
  IN LatenciesMarshalTo(w8, m.Latencies, SortedInt32s(DOMAIN m.Latencies), 1)

NodeStatusMarshal(m) ==
  MarshalResult(NodeStatusMarshalTo(Writer(NodeStatusSize(m)), m))

\* ------------------------------------------------------------------------
\* The marshalling calls (SpecMarshal)
\* ------------------------------------------------------------------------
\* the byte string of n letters
Letters(n) == [i \in 1..n |-> 97]
Max64 == <<65535, 65535, 65535, 65535>>

\* 2^k and 2^k - 1 for 0 <= k < 64, and 2^64 - 1
Pow64(k) == [i \in 1..4 |-> IF i = (k \div 16) + 1 THEN 2 ^ (k % 16) ELSE 0]
Pow64Less1(k) ==
  [i \in 1..4 |-> IF i < (k \div 16) + 1 THEN 65535
                  ELSE IF i = (k \div 16) + 1 THEN 2 ^ (k % 16) - 1 ELSE 0]
Uint64s == {Pow64(k) : k \in 0..63} \cup {Pow64Less1(k) : k \in 0..63} \cup {Max64}

\* maps of at most MaxEntries entries from keys to values
MapsOf(keys, values) ==
  UNION {[ks -> values] : ks \in {x \in SUBSET keys : Cardinality(x) <= MaxEntries}}
\* slices of at most MaxEntries elements
SlicesOf(elems) == UNION {[1..n -> elems] : n \in 0..MaxEntries}

\* the keys make entries of fewer than, exactly and more than 127 bytes
MetricNames == {<<>>, <<98>>, Letters(116), Letters(117), Letters(128)}
StoreStatuses ==
  {[Desc |-> d, Metrics |-> mm] :
     d \in {0, 1, 127, 128}, mm \in MapsOf(MetricNames, {U64(0), Max64})}

\* the scalar fields of a NodeStatus: Desc, BuildInfo, StartedAt, UpdatedAt
NodeScalars ==
  {<<0, 0, U64(0), U64(0)>>, <<127, 128, Max64, U64(127)>>,
   <<128, 1, Pow64(63), U64(128)>>}
NodeStatuses ==
  {[Desc |-> sc[1], BuildInfo |-> sc[2], StartedAt |-> sc[3], UpdatedAt |-> sc[4],
    Metrics |-> mm, StoreStatuses |-> ss, Args |-> a, Env |-> e, Latencies |-> lat] :
     sc \in NodeScalars,
     mm \in {<<>>, Letters(117) :> Max64},
     ss \in SlicesOf({[Desc |-> 0, Metrics |-> <<>>],
                      [Desc |-> 127, Metrics |-> (<<98>> :> U64(0))]}),
     a \in SlicesOf({Letters(128)}),
     e \in {<<>>, <<<<>>, Letters(127)>>},
     lat \in MapsOf({-1, 300}, {Max64})}

InitMarshal ==
  /\ helpers = <<>>
  /\ returned = {}
  /\ rows = InputRows
  /\ placeholders = CHOOSE e \in PlaceholderEnvs : TRUE
  /\ ret = NoRet
  /\ calls = <<>>
  /\ enc = [p \in Encoders |-> IdleEnc]
  /\ bufs = [p \in Encoders |-> <<>>]
  /\ \/ \E m \in StoreStatuses : pb = [op |-> "arg", type |-> "StoreStatus", m |-> m]
     \/ \E m \in NodeStatuses : pb = [op |-> "arg", type |-> "NodeStatus", m |-> m]
     \/ \E v \in Uint64s, off \in {0, 3} :
          pb = [op |-> "arg", type |-> "uint64", v |-> v, offset |-> off]

\* dAtA, err := m.Marshal() on a StoreStatus
StoreStatusMarshalCall ==
  /\ pb.op = "arg" /\ pb.type = "StoreStatus"
  /\ pb' = [op |-> "Marshal", type |-> pb.type, m |-> pb.m,
            res |-> StoreStatusMarshal(pb.m)]
  /\ UNCHANGED <<helpers, returned, rows, placeholders, ret, calls, enc, bufs>>

\* dAtA, err := m.Marshal() on a NodeStatus
NodeStatusMarshalCall ==
  /\ pb.op = "arg" /\ pb.type = "NodeStatus"
  /\ pb' = [op |-> "Marshal", type |-> pb.type, m |-> pb.m,
            res |-> NodeStatusMarshal(pb.m)]
  /\ UNCHANGED <<helpers, returned, rows, placeholders, ret, calls, enc, bufs>>

\* encodeVarintStatus(dAtA, offset, v) on a slice with room for offset
\* bytes and sovStatus(v) more
encodeVarintStatusCall ==
  /\ pb.op = "arg" /\ pb.type = "uint64"
  /\ LET w == PutAll(Writer(pb.offset + sovStatus(pb.v)), [k \in 1..pb.offset |-> 0])
         w1 == encodeVarintStatus(w, pb.v)
     IN pb' = [op |-> "encodeVarint", type |-> pb.type, v |-> pb.v,
               offset |-> pb.offset, sov |-> sovStatus(pb.v),
               kind |-> w1.kind, end |-> w1.i, dAtA |-> w1.dAtA]
  /\ UNCHANGED <<helpers, returned, rows, placeholders, ret, calls, enc, bufs>>

NextMarshal ==
  \/ StoreStatusMarshalCall
  \/ NodeStatusMarshalCall
  \/ encodeVarintStatusCall

SpecMarshal == InitMarshal /\ [][NextMarshal]_vars

\* ------------------------------------------------------------------------
\* StoreStatus.Unmarshal and skipStatus
\* ------------------------------------------------------------------------
\* An index (iNdEx, postIndex, n) is an int: 64 bits in two's complement.
\* What a decoding step hands on: nil, an error or a panic of the runtime.
Zero64 == U64(0)
DecOk(iNdEx, v) == [kind |-> "ok", err |-> "", iNdEx |-> iNdEx, v |-> v]
DecErr(e) == [kind |-> "err", err |-> e, iNdEx |-> Zero64, v |-> Zero64]
DecPanic(e) == [kind |-> "panic", err |-> e, iNdEx |-> Zero64, v |-> Zero64]

\* dAtA[idx] is inside the slice; outside, the runtime panics
InRange(dAtA, idx) == ~IsNeg64(idx) /\ IsSmall64(idx) /\ ToInt(idx) < Len(dAtA)
\* dAtA[lo:hi] is a valid slice expression: 0 <= lo <= hi <= len(dAtA)
SliceOK(dAtA, lo, hi) ==
  /\ ~IsNeg64(lo) /\ ~Less64(hi, lo) /\ ~Less64(U64(Len(dAtA)), hi)
\* dAtA[lo:hi] of a valid slice expression
Slice(dAtA, lo, hi) == SubSeq(dAtA, ToInt(lo) + 1, ToInt(hi))

RECURSIVE VarintLoop(_, _, _, _)
\* for shift := uint(0); ; shift += 7 { ... }: decodes the varint at
\* dAtA[iNdEx], v being the value so far
VarintLoop(dAtA, iNdEx, shift, v) ==
  IF shift >= 64 THEN DecErr("ErrIntOverflowStatus")
  ELSE IF ~Less64(iNdEx, U64(Len(dAtA))) THEN DecErr("io.ErrUnexpectedEOF")
  ELSE IF ~InRange(dAtA, iNdEx) THEN DecPanic("index out of range")
  ELSE LET b == dAtA[ToInt(iNdEx) + 1]
           v1 == Or64(v, Shl64(b % 128, shift))
           i1 == Add64(iNdEx, U64(1))
       IN IF b < 128 THEN DecOk(<<i1[1], i1[2], i1[3], i1[4]>>,
                                <<v1[1], v1[2], v1[3], v1[4]>>)
          ELSE VarintLoop(dAtA, i1, shift + 7, v1)

RECURSIVE skipStatus(_)
RECURSIVE SkipGroup(_, _)
\* skipStatus(dAtA): the number of bytes of the field at dAtA[0], in iNdEx
skipStatus(dAtA) ==
  IF Len(dAtA) = 0 THEN DecPanic("unreachable")
  ELSE
    LET t == VarintLoop(dAtA, Zero64, 0, Zero64)
        wireType == t.v[1] % 8
    IN IF t.kind # "ok" THEN t
       ELSE CASE wireType = 0 ->
                   LET s == VarintLoop(dAtA, t.iNdEx, 0, Zero64)
                   IN IF s.kind # "ok" THEN s ELSE DecOk(s.iNdEx, Zero64)
              [] wireType = 1 -> DecOk(Add64(t.iNdEx, U64(8)), Zero64)
              [] wireType = 2 ->
                   LET s == VarintLoop(dAtA, t.iNdEx, 0, Zero64)
                   IN IF s.kind # "ok" THEN s
                      ELSE IF IsNeg64(s.v) THEN DecErr("ErrInvalidLengthStatus")
                      ELSE DecOk(Add64(s.iNdEx, s.v), Zero64)
              [] wireType = 3 -> SkipGroup(dAtA, t.iNdEx)
              [] wireType = 4 -> DecOk(t.iNdEx, Zero64)
              [] wireType = 5 -> DecOk(Add64(t.iNdEx, U64(4)), Zero64)
              [] OTHER -> DecErr("illegal wireType")

\* case 3 of skipStatus: the fields of a group up to its end tag
SkipGroup(dAtA, iNdEx) ==
  LET start == iNdEx
      t == VarintLoop(dAtA, iNdEx, 0, Zero64)
  IN IF t.kind # "ok" THEN t
     ELSE IF t.v[1] % 8 = 4 THEN DecOk(t.iNdEx, Zero64)
     ELSE IF ~SliceOK(dAtA, start, U64(Len(dAtA)))
          THEN DecPanic("slice bounds out of range")
     ELSE LET next == skipStatus(Slice(dAtA, start, U64(Len(dAtA))))
          IN IF next.kind # "ok" THEN next
             ELSE SkipGroup(dAtA, Add64(start, next.iNdEx))

\* what Unmarshal returns: nil, an error or a panic, and the message m
UnmOk(m) == [kind |-> "ok", err |-> "", m |-> m]
UnmFail(d, m) == [kind |-> d.kind, err |-> d.err, m |-> m]
\* the message a decoder starts from
EmptyStoreStatus == [Desc |-> <<>>, Metrics |-> <<>>]
\* m.Desc.Unmarshal(dAtA[iNdEx:postIndex]): the descriptor keeps the bytes
DescUnmarshal(bytes) == [kind |-> "ok", err |-> "", Desc |-> bytes]
\* encoding_binary.LittleEndian.Uint64(b)
Uint64LE(b) ==
  <<b[1] + 256 * b[2], b[3] + 256 * b[4], b[5] + 256 * b[6], b[7] + 256 * b[8]>>

RECURSIVE EntryLoop(_, _, _, _, _)
\* for iNdEx < postIndex { ... }: the key and the value of one Metrics
\* entry; v of the result is <<mapkey, mapvalue>>
EntryLoop(dAtA, iNdEx, postIndex, mapkey, mapvalue) ==
  IF ~Less64(iNdEx, postIndex) THEN DecOk(iNdEx, <<mapkey, mapvalue>>)
  ELSE
    LET l == U64(Len(dAtA))
        entryPreIndex == iNdEx
        t == VarintLoop(dAtA, iNdEx, 0, Zero64)
        fieldNum == Int32(Shr64(t.v, 3))
    IN IF t.kind # "ok" THEN t
       ELSE IF fieldNum = 1 THEN
         LET s == VarintLoop(dAtA, t.iNdEx, 0, Zero64)
             postStringIndexmapkey == Add64(s.iNdEx, s.v)
         IN IF s.kind # "ok" THEN s
            ELSE IF IsNeg64(s.v) THEN DecErr("ErrInvalidLengthStatus")
            ELSE IF Less64(l, postStringIndexmapkey) THEN DecErr("io.ErrUnexpectedEOF")
            ELSE IF ~SliceOK(dAtA, s.iNdEx, postStringIndexmapkey)
                 THEN DecPanic("slice bounds out of range")
            ELSE EntryLoop(dAtA, postStringIndexmapkey, postIndex,
                           Slice(dAtA, s.iNdEx, postStringIndexmapkey), mapvalue)
       ELSE IF fieldNum = 2 THEN
         IF Less64(l, Add64(t.iNdEx, U64(8))) THEN DecErr("io.ErrUnexpectedEOF")
         ELSE EntryLoop(dAtA, Add64(t.iNdEx, U64(8)), postIndex, mapkey,
                        Uint64LE(Slice(dAtA, t.iNdEx, Add64(t.iNdEx, U64(8)))))
       ELSE
         LET skippy == skipStatus(Slice(dAtA, entryPreIndex, l))
         IN IF skippy.kind # "ok" THEN skippy
            ELSE IF IsNeg64(skippy.iNdEx) THEN DecErr("ErrInvalidLengthStatus")
            ELSE IF Less64(postIndex, Add64(entryPreIndex, skippy.iNdEx))
                 THEN DecErr("io.ErrUnexpectedEOF")
            ELSE EntryLoop(dAtA, Add64(entryPreIndex, skippy.iNdEx), postIndex,
                           mapkey, mapvalue)

RECURSIVE UnmarshalLoop(_, _, _)
\* case 1: the field Desc
DescField(dAtA, iNdEx, wireType, m) ==
  IF wireType # 2 THEN UnmFail(DecErr("wrong wireType for field Desc"), m)
  ELSE
    LET s == VarintLoop(dAtA, iNdEx, 0, Zero64)
        msglen == s.v
        postIndex == Add64(s.iNdEx, msglen)
    IN IF s.kind # "ok" THEN UnmFail(s, m)
       ELSE IF IsNeg64(msglen) THEN UnmFail(DecErr("ErrInvalidLengthStatus"), m)
       ELSE IF Less64(U64(Len(dAtA)), postIndex)
            THEN UnmFail(DecErr("io.ErrUnexpectedEOF"), m)
       ELSE IF ~SliceOK(dAtA, s.iNdEx, postIndex)
            THEN UnmFail(DecPanic("slice bounds out of range"), m)
       ELSE LET d == DescUnmarshal(Slice(dAtA, s.iNdEx, postIndex))
            IN IF d.kind # "ok" THEN UnmFail(d, m)
               ELSE UnmarshalLoop(dAtA, postIndex, [m EXCEPT !.Desc = d.Desc])

\* case 2: the field Metrics
MetricsField(dAtA, iNdEx, wireType, m) ==
  IF wireType # 2 THEN UnmFail(DecErr("wrong wireType for field Metrics"), m)
  ELSE
    LET s == VarintLoop(dAtA, iNdEx, 0, Zero64)
        msglen == s.v
        postIndex == Add64(s.iNdEx, msglen)
        e == EntryLoop(dAtA, s.iNdEx, postIndex, <<>>, Zero64)
    IN IF s.kind # "ok" THEN UnmFail(s, m)
       ELSE IF IsNeg64(msglen) THEN UnmFail(DecErr("ErrInvalidLengthStatus"), m)
       ELSE IF Less64(U64(Len(dAtA)), postIndex)
            THEN UnmFail(DecErr("io.ErrUnexpectedEOF"), m)
       ELSE IF e.kind # "ok" THEN UnmFail(e, m)
       ELSE UnmarshalLoop(dAtA, postIndex,
                          [m EXCEPT !.Metrics = (e.v[1] :> e.v[2]) @@ @])

\* default: an unknown field is skipped
UnknownField(dAtA, preIndex, m) ==
  LET skippy == skipStatus(Slice(dAtA, preIndex, U64(Len(dAtA))))
  IN IF skippy.kind # "ok" THEN UnmFail(skippy, m)
     ELSE IF IsNeg64(skippy.iNdEx) THEN UnmFail(DecErr("ErrInvalidLengthStatus"), m)
     ELSE IF Less64(U64(Len(dAtA)), Add64(preIndex, skippy.iNdEx))
          THEN UnmFail(DecErr("io.ErrUnexpectedEOF"), m)
     ELSE UnmarshalLoop(dAtA, Add64(preIndex, skippy.iNdEx), m)

\* for iNdEx < l { ... } and the check after it
UnmarshalLoop(dAtA, iNdEx, m) ==
  IF ~Less64(iNdEx, U64(Len(dAtA)))
  THEN IF Less64(U64(Len(dAtA)), iNdEx)
       THEN UnmFail(DecErr("io.ErrUnexpectedEOF"), m) ELSE UnmOk(m)
  ELSE
    LET preIndex == iNdEx
        t == VarintLoop(dAtA, iNdEx, 0, Zero64)
        fieldNum == Int32(Shr64(t.v, 3))
        wireType == t.v[1] % 8
    IN IF t.kind # "ok" THEN UnmFail(t, m)
       ELSE IF wireType = 4
            THEN UnmFail(DecErr("wiretype end group for non-group"), m)
       ELSE IF fieldNum <= 0 THEN UnmFail(DecErr("illegal tag"), m)
       ELSE IF fieldNum = 1 THEN DescField(dAtA, t.iNdEx, wireType, m)
       ELSE IF fieldNum = 2 THEN MetricsField(dAtA, t.iNdEx, wireType, m)
       ELSE UnknownField(dAtA, preIndex, m)

\* StoreStatus.Unmarshal(dAtA) on a fresh message
StoreStatusUnmarshal(dAtA) == UnmarshalLoop(dAtA, Zero64, EmptyStoreStatus)

\* ------------------------------------------------------------------------
\* The decoding calls (SpecUnmarshal)
\* ------------------------------------------------------------------------
\* the varints of 2^63 - 1 (nine bytes), of 2^64 - 1 (ten bytes) and one of
\* more than 64 bits
Varint63 == <<255, 255, 255, 255, 255, 255, 255, 255, 127>>
Varint64 == <<255, 255, 255, 255, 255, 255, 255, 255, 255, 1>>
VarintLong == <<255, 255, 255, 255, 255, 255, 255, 255, 255, 255, 1>>

\* the pieces of an input: tags of the known fields, tags of an unknown
\* field of every wire type, varints, and whole fields
Chunks ==
  {<<10>>, <<18>>, <<17>>, <<2>>, <<24>>, <<25>>, <<26>>, <<27>>, <<28>>,
   <<29>>, <<30>>, <<0>>, <<5>>, <<128>>, Varint63, Varint64, VarintLong,
   <<10, 1, 221>>, <<18, 9, 10>>, <<18, 9, 17>>, <<27, 26>>, <<24, 0, 26>>}

RECURSIVE Concat(_)
\* the chunks of a sequence, one after the other
Concat(list) == IF list = <<>> THEN <<>> ELSE Head(list) \o Concat(Tail(list))

\* the messages whose encoding is decoded again
EncodedStatuses ==
  {[Desc |-> d, Metrics |-> mm] :
     d \in {0, 1}, mm \in MapsOf({<<>>, <<98>>, Letters(3)}, {U64(0), Max64})}

DecoderInputs ==
  {Concat(list) : list \in UNION {[1..n -> Chunks] : n \in 0..MaxChunks}}
    \cup {StoreStatusMarshal(m).out : m \in EncodedStatuses}

InitUnmarshal ==
  /\ helpers = <<>>
  /\ returned = {}
  /\ rows = InputRows
  /\ placeholders = CHOOSE e \in PlaceholderEnvs : TRUE
  /\ ret = NoRet
  /\ calls = <<>>
  /\ enc = [p \in Encoders |-> IdleEnc]
  /\ bufs = [p \in Encoders |-> <<>>]
  /\ \E dAtA \in DecoderInputs : pb = [op |-> "arg", type |-> "bytes", dAtA |-> dAtA]

\* err := m.Unmarshal(dAtA) on a fresh StoreStatus
StoreStatusUnmarshalCall ==
  /\ pb.op = "arg" /\ pb.type = "bytes"
  /\ pb' = [op |-> "Unmarshal", type |-> pb.type, dAtA |-> pb.dAtA,
            res |-> StoreStatusUnmarshal(pb.dAtA)]
  /\ UNCHANGED <<helpers, returned, rows, placeholders, ret, calls, enc, bufs>>

\* n, err := skipStatus(dAtA)
skipStatusCall ==
  /\ pb.op = "arg" /\ pb.type = "bytes"
  /\ LET r == skipStatus(pb.dAtA)
     IN pb' = [op |-> "skipStatus", type |-> pb.type, dAtA |-> pb.dAtA,
               res |-> [kind |-> r.kind, err |-> r.err, n |-> r.iNdEx]]
  /\ UNCHANGED <<helpers, returned, rows, placeholders, ret, calls, enc, bufs>>

NextUnmarshal ==
  \/ StoreStatusUnmarshalCall
  \/ skipStatusCall

SpecUnmarshal == InitUnmarshal /\ [][NextUnmarshal]_vars

\* ------------------------------------------------------------------------
\* Properties of the binder and the row evaluation loop (Spec)
\* ------------------------------------------------------------------------
RECURSIVE ValueOf(_, _, _)
\* The value of a bound expression over the values vals of one row: the
\* variable of index j stands for vals[j] (0-based), whatever container the
\* leaf is linked to.
ValueOf(e, vals, ctx) ==
  CASE e.t = "ivar" ->
         IF e.idx + 1 > Len(vals) THEN PanicD("index out of range")
         ELSE OkD(vals[e.idx + 1])
    [] e.t = "num" -> OkD(e.v)
    [] e.t = "ph" -> PlaceholderEval(ctx, e.n)
    [] e.t = "bin" ->
         LET l == ValueOf(e.l, vals, ctx)
         IN IF l.kind # "ok" THEN l
            ELSE LET r == ValueOf(e.r, vals, ctx)
                 IN IF r.kind # "ok" THEN r ELSE BinOp(e.op, l.d, r.d)

RECURSIVE Containers(_)
\* the containers the IndexedVar leaves of an expression are linked to
Containers(e) ==
  CASE e.t = "ivar" -> {e.c}
    [] e.t = "bin" -> Containers(e.l) \cup Containers(e.r)
    [] OTHER -> {}

ExprsOf(a) == helpers[a].exprs.elems
CookedOn(a) == ret.op = "cook" /\ ret.rh = a

\* C1: on a helper with a non-empty expression list, a cookResultRow call
\* that succeeds returns a row that did not exist before the call, with one
\* value per expression, the i-th being the value of the i-th expression
\* over the row passed to this call; v*2 over (10, 20) gives (40).
C1_CookedRow ==
  \A a \in returned :
    (CookedOn(a) /\ ret.kind = "ok" /\ Len(ExprsOf(a)) > 0) =>
      /\ ret.row = Len(rows)
      /\ ret.row > Len(InputRows)
      /\ ret.row # ret.arg
      /\ Len(rows[ret.row]) = Len(ExprsOf(a))
      /\ \A i \in 1..Len(ExprsOf(a)) :
           OkD(rows[ret.row][i]) = ValueOf(ExprsOf(a)[i], rows[ret.arg], placeholders)
      /\ (/\ ExprsOf(a) = <<Bin("*", IVar(1, a), Num(2))>>
          /\ rows[ret.arg] = <<10, 20>>) => rows[ret.row] = <<40>>

\* a second call on the same helper, v*2 over (10, 20)
C1_Witness ==
  \E a \in returned :
    /\ CookedOn(a) /\ ret.kind = "ok"
    /\ calls[a].made >= 2
    /\ ExprsOf(a) = <<Bin("*", IVar(1, a), Num(2))>>
    /\ rows[ret.arg] = <<10, 20>>
    /\ rows[ret.row] = <<40>>

\* C2: the container the IndexedVar leaves of a returned helper are linked
\* to is the helper newReturningHelper returned, and it is the one whose
\* curSourceRow cookResultRow has set to the row of the call.
C2_SameContainer ==
  \A a \in returned :
    /\ \A i \in 1..Len(ExprsOf(a)) : Containers(ExprsOf(a)[i]) \subseteq {a}
    /\ (CookedOn(a) /\ ~helpers[a].exprs.isNil) =>
         \A i \in 1..Len(ExprsOf(a)) :
           \A c \in Containers(ExprsOf(a)[i]) : helpers[c].curSourceRow = ret.arg

C2_Witness ==
  \E a \in returned :
    /\ CookedOn(a) /\ ret.kind = "ok"
    /\ \E i \in 1..Len(ExprsOf(a)) : Containers(ExprsOf(a)[i]) = {a}

\* C3: a helper built from ReturningNothing or NoReturningClause has no
\* expressions; every cookResultRow call on it returns the row reference it
\* was given, with the row's values untouched and no error, and adds one to
\* rowCount, which equals the number of calls made.
C3_PassThrough ==
  /\ (ret.op = "new" /\ ret.clause.kind \in {"nothing", "none"}) =>
       ret.kind = "ok" /\ ret.rh \in returned
  /\ \A a \in returned :
       calls[a].clause.kind \in {"nothing", "none"} =>
         /\ helpers[a].exprs = NilSlice
         /\ helpers[a].rowCount = calls[a].made
         /\ CookedOn(a) =>
              /\ ret.kind = "ok"
              /\ ret.row = ret.arg
              /\ rows[ret.row] = InputRows[ret.arg]
              /\ helpers[a].rowCount = ret.cnt0 + 1

C3_Witness ==
  \E a \in returned :
    /\ calls[a].clause.kind = "nothing"
    /\ CookedOn(a) /\ calls[a].made >= 2 /\ helpers[a].rowCount >= 2

HasAggOrWindow(list) == \E i \in 1..Len(list) : ContainsAggOrWindow(list[i])

\* C9: newReturningHelper on a list with an aggregate or window construct
\* in some entry returns an error and no helper, and no returned helper was
\* built from such a list.
C9_RejectsAggregates ==
  /\ (ret.op = "new" /\ ret.clause.kind = "exprs" /\ HasAggOrWindow(ret.clause.list)) =>
       /\ ret.kind = "err"
       /\ ret.rh = NilRef
       /\ Len(helpers) \notin returned
  /\ \A a \in returned :
       /\ ~HasAggOrWindow(calls[a].clause.list)
       /\ ~HasAggOrWindow(ExprsOf(a))

\* the aggregate is in the second entry, or inside a binary expression
C9_Witness ==
  /\ ret.op = "new" /\ ret.kind = "err"
  /\ ret.clause.kind = "exprs" /\ HasAggOrWindow(ret.clause.list)
  /\ ~ContainsAggOrWindow(ret.clause.list[1]) \/ ret.clause.list[1].t = "bin"

\* index of the first expression of the list that does not evaluate over
\* vals, 0 when all do
FirstFailing(exprs, vals, ctx) ==
  IF \E i \in 1..Len(exprs) : ValueOf(exprs[i], vals, ctx).kind # "ok"
  THEN CHOOSE i \in 1..Len(exprs) :
         /\ ValueOf(exprs[i], vals, ctx).kind # "ok"
         /\ \A j \in 1..(i - 1) : ValueOf(exprs[j], vals, ctx).kind = "ok"
  ELSE 0

\* C10: when the first expression that does not evaluate over the row
\* fails with an error, cookResultRow evaluates no expression after it,
\* returns no row and that very error, and leaves rowCount as it was.
C10_StopsAtFirstError ==
  \A a \in returned :
    LET f == FirstFailing(ExprsOf(a), rows[ret.arg], placeholders)
    IN (/\ CookedOn(a) /\ ~helpers[a].exprs.isNil
        /\ f # 0
        /\ ValueOf(ExprsOf(a)[f], rows[ret.arg], placeholders).kind = "err") =>
         /\ ret.kind = "err"
         /\ ret.msg = ValueOf(ExprsOf(a)[f], rows[ret.arg], placeholders).msg
         /\ ret.evald = f
         /\ ret.row = NilRef
         /\ helpers[a].rowCount = ret.cnt0

\* the failing expression is neither the first nor the last of the list
C10_Witness ==
  \E a \in returned :
    /\ CookedOn(a) /\ ret.kind = "err" /\ ret.msg = "division by zero"
    /\ ret.evald > 1 /\ ret.evald < Len(ExprsOf(a))


\* ------------------------------------------------------------------------
\* Properties of the serialization (SpecEnc)
\* ------------------------------------------------------------------------
IsDigit(c) == \E d \in 1..10 : Digits[d] = c
DigitVal(c) == (CHOOSE d \in 1..10 : Digits[d] = c) - 1

RECURSIVE ReadNat(_, _, _)
\* reads the decimal number that starts at position i of the text: its
\* value and the position after its last digit
ReadNat(text, i, acc) ==
  IF i <= Len(text) /\ IsDigit(text[i])
  THEN ReadNat(text, i + 1, acc * 10 + DigitVal(text[i]))
  ELSE [val |-> acc, next |-> i]

RECURSIVE Tokens(_, _)
\* The tokens of a wire text from position i on, as a reader of the text
\* finds them: "@" and the digits after it are a variable of that ordinal,
\* other digits are a number, anything else but a blank is a symbol.
Tokens(text, i) ==
  IF i > Len(text) THEN <<>>
  ELSE IF text[i] = "@" /\ i < Len(text) /\ IsDigit(text[i + 1])
  THEN <<[k |-> "var", n |-> ReadNat(text, i + 1, 0).val]>>
       \o Tokens(text, ReadNat(text, i + 1, 0).next)
  ELSE IF IsDigit(text[i])
  THEN <<[k |-> "num", n |-> ReadNat(text, i, 0).val]>>
       \o Tokens(text, ReadNat(text, i, 0).next)
  ELSE IF text[i] = " " THEN Tokens(text, i + 1)
  ELSE <<[k |-> text[i], n |-> 0]>> \o Tokens(text, i + 1)

\* the numbers of the tokens of kind k, in the order of the text
TokenNumbers(text, k) ==
  LET toks == Tokens(text, 1)
      RECURSIVE Pick(_)
      Pick(i) == IF i > Len(toks) THEN <<>>
                 ELSE IF toks[i].k = k THEN <<toks[i].n>> \o Pick(i + 1)
                 ELSE Pick(i + 1)
  IN Pick(1)

RECURSIVE Leaves(_)
\* the leaves of an expression, left to right
Leaves(e) ==
  CASE e.t = "bin" -> Leaves(e.l) \o Leaves(e.r)
    [] e.t = "nil" -> <<>>
    [] OTHER -> <<e>>

\* the leaves of kind t of an expression, left to right
LeavesOf(e, t) == SelectSeq(Leaves(e), LAMBDA l : l.t = t)

Encoded == ret.op = "encode"

\* C4: in the text of a successful MakeExpression call the k-th variable
\* token is "@" and the decimal of idx+1 of the k-th IndexedVar leaf when no
\* map is passed, of indexVarMap[idx]+1 when one is; every ordinal is at
\* least 1; k+v encodes to "@3 + @6" under the map (2, 5) and to "@1 + @2"
\* without a map.
C4_Ordinals ==
  (Encoded /\ ret.kind = "ok") =>
    LET ivars == LeavesOf(ret.expr, "ivar")
        ords == TokenNumbers(ret.wire, "var")
    IN /\ Len(ords) = Len(ivars)
       /\ \A k \in 1..Len(ivars) :
            /\ ords[k] >= 1
            /\ ords[k] = IF ret.map.isNil THEN ivars[k].idx + 1
                         ELSE ret.map.elems[ivars[k].idx + 1] + 1
       /\ (ret.expr = Bin("+", IVar(0, 1), IVar(1, 1)) /\ ret.map = MkSlice(<<2, 5>>))
            => ret.wire = <<"@", "3", " ", "+", " ", "@", "6">>
       /\ (ret.expr = Bin("+", IVar(0, 1), IVar(1, 1)) /\ ret.map = NilSlice)
            => ret.wire = <<"@", "1", " ", "+", " ", "@", "2">>

\* k+v under a map whose first ordinal has two digits
C4_Witness ==
  /\ Encoded /\ ret.kind = "ok"
  /\ ret.expr = Bin("+", IVar(0, 1), IVar(1, 1))
  /\ ret.map = MkSlice(<<11, 0>>)
  /\ ret.wire = <<"@", "1", "2", " ", "+", " ", "@", "1">>

\* the map has no entry for idx: no position, or the unmapped marker
Unmapped(indexVarMap, idx) ==
  \/ idx + 1 > Len(indexVarMap.elems)
  \/ indexVarMap.elems[idx + 1] < 0

\* a leaf the interceptors cannot write
CannotWrite(l) ==
  \/ l.t = "ivar" /\ ~ret.map.isNil /\ Unmapped(ret.map, l.idx)
  \/ l.t = "ph" /\ ~placeholders[l.n].bound

\* the first leaf, left to right, that the interceptors cannot write
FirstUnwritable(e) ==
  LET ls == Leaves(e)
  IN ls[CHOOSE i \in 1..Len(ls) :
          CannotWrite(ls[i]) /\ \A j \in 1..(i - 1) : ~CannotWrite(ls[j])]

LacksEntry ==
  /\ Encoded /\ ~ret.map.isNil
  /\ \E l \in Range(LeavesOf(ret.expr, "ivar")) : Unmapped(ret.map, l.idx)

\* C5 as stated: a MakeExpression call with a map that lacks an entry for
\* a referenced index panics with "unmapped index" and returns no text.
C5_AsStated ==
  LacksEntry => ret.kind = "panic" /\ ret.msg = "unmapped index" /\ ret.wire = <<>>

\* C5: a MakeExpression call with a map that lacks an entry for a
\* referenced index panics and returns no text; the panic is "unmapped
\* index" when the first leaf that cannot be written is a variable whose
\* entry is negative, the runtime's index-out-of-range when it is a
\* variable whose index is outside the map, and the placeholder failure
\* when it is a placeholder.
C5_UnmappedPanics ==
  LacksEntry =>
    /\ ret.kind = "panic"
    /\ ret.wire = <<>>
    /\ LET l == FirstUnwritable(ret.expr)
       IN ret.msg = CASE l.t = "ph" -> "failed to serialize placeholder"
                      [] l.t = "ivar" /\ l.idx + 1 > Len(ret.map.elems) -> "index out of range"
                      [] OTHER -> "unmapped index"

\* the second of two variables has the unmapped marker
C5_Witness ==
  /\ LacksEntry
  /\ ret.map = MkSlice(<<4, -1>>)
  /\ Len(LeavesOf(ret.expr, "ivar")) >= 2
  /\ ret.kind = "panic" /\ ret.msg = "unmapped index"

\* C6: when the map has an entry for every index the expression refers to,
\* the ordinals N-1 of the "@N" tokens of the text are exactly the images of
\* the expression's variable indices under the map, one token per variable
\* leaf; the call fails only if a placeholder does.
C6_RoundTrip ==
  LET ivars == LeavesOf(ret.expr, "ivar")
      ords == TokenNumbers(ret.wire, "var")
  IN (/\ Encoded /\ ~ret.map.isNil
      /\ \A l \in Range(ivars) : ~Unmapped(ret.map, l.idx)) =>
       /\ ret.kind = "ok" =>
            /\ {n - 1 : n \in Range(ords)} = {ret.map.elems[l.idx + 1] : l \in Range(ivars)}
            /\ Len(ords) = Len(ivars)
       /\ ret.kind = "ok" <=> \A l \in Range(Leaves(ret.expr)) : ~CannotWrite(l)

\* three variable leaves over two indices, which the map sends to one
C6_Witness ==
  /\ Encoded /\ ret.kind = "ok"
  /\ ret.map = MkSlice(<<3, 3>>)
  /\ Len(LeavesOf(ret.expr, "ivar")) = 2
  /\ Cardinality(Range(LeavesOf(ret.expr, "ivar"))) = 2
  /\ TokenNumbers(ret.wire, "var") = <<4, 4>>

\* the value of a number or placeholder leaf
LiteralOf(l) == IF l.t = "ph" THEN placeholders[l.n].v ELSE l.v

\* C7: the text of a successful MakeExpression call holds no placeholder:
\* in the place of every placeholder stands the number it is bound to; a
\* call on an expression with a placeholder that does not evaluate panics
\* and returns no text.
C7_NoPlaceholder ==
  Encoded =>
    LET lits == SelectSeq(Leaves(ret.expr), LAMBDA l : l.t \in {"ph", "num"})
    IN /\ ret.kind = "ok" =>
            /\ "$" \notin Range(ret.wire)
            /\ TokenNumbers(ret.wire, "num") = [k \in 1..Len(lits) |-> LiteralOf(lits[k])]
       /\ (\E l \in Range(LeavesOf(ret.expr, "ph")) : ~placeholders[l.n].bound) =>
            ret.kind = "panic" /\ ret.wire = <<>>
       /\ ret.kind # "err"

C7_Witness ==
  /\ Encoded /\ ret.kind = "ok"
  /\ LeavesOf(ret.expr, "ph") = <<Ph(2)>>
  /\ TokenNumbers(ret.wire, "num") = <<30>>


\* ------------------------------------------------------------------------
\* Properties of concurrent serialization (SpecConc)
\* ------------------------------------------------------------------------
\* C8: whatever the interleaving of the concurrent MakeExpression calls,
\* a call that has ended has the outcome MakeExpression has for its
\* arguments when run alone, and the helper, the rows and the expression
\* handed to the callers are as they were after construction.
C8_ConcurrentEncode ==
  /\ \A p \in Encoders :
       enc[p].pc \in {"done", "panicked"} =>
         [kind |-> enc[p].kind, msg |-> enc[p].msg, text |-> enc[p].wire]
           = MakeExpression(enc[p].expr, placeholders, enc[p].map)
  /\ helpers = <<BuildHelper(1, calls[1].clause).h>>
  /\ rows = InputRows
  /\ \A p \in Encoders : enc[p].expr \in {NilExpr} \cup Range(ExprsOf(1))
  /\ \A p, q \in Encoders : enc[p].expr = enc[q].expr

\* two calls on (k * $1) + v have ended, with different maps and texts
C8_Witness ==
  /\ enc[1].pc = "done" /\ enc[2].pc = "done"
  /\ enc[1].expr = Bin("+", Bin("*", IVar(0, 1), Ph(1)), IVar(1, 1))
  /\ enc[1].map = NilSlice /\ enc[2].map = MkSlice(<<2, 5>>)
  /\ enc[1].wire # enc[2].wire
  /\ enc[2].wire = <<"(", "@", "3", " ", "*", " ", "7", ")", " ", "+", " ", "@", "6">>


\* ------------------------------------------------------------------------
\* Further properties of the binder and the row evaluation loop (Spec)
\* ------------------------------------------------------------------------
\* C11: on one helper, two cookResultRow calls with rows of equal values
\* have equal outcomes (the same values, or the same failure), whatever
\* calls were made before or between them.
C11_NoLeak ==
  \A a \in returned :
    \A i, j \in 1..Len(calls[a].log) :
      rows[calls[a].log[i].arg] = rows[calls[a].log[j].arg] =>
        /\ calls[a].log[i].kind = calls[a].log[j].kind
        /\ calls[a].log[i].msg = calls[a].log[j].msg
        /\ calls[a].log[i].vals = calls[a].log[j].vals

\* row A, then a row B on which an expression fails, then row A again
C11_Witness ==
  \E a \in returned :
    /\ Len(calls[a].log) = 3
    /\ calls[a].log[1].arg = calls[a].log[3].arg
    /\ calls[a].log[2].arg # calls[a].log[1].arg
    /\ calls[a].log[1].kind = "ok" /\ calls[a].log[1].vals = <<0, 30>>
    /\ calls[a].log[2].kind = "err"
    /\ calls[a].log[3].vals = <<0, 30>>


\* ------------------------------------------------------------------------
\* Further properties of the serialization (SpecEnc)
\* ------------------------------------------------------------------------
\* C12: MakeExpression of the nil expression returns the empty Expression
\* and does not fail, whatever the placeholder bindings and the index map.
C12_NilExpr ==
  (Encoded /\ ret.expr = NilExpr) =>
    ret.kind = "ok" /\ ret.msg = "" /\ ret.wire = <<>>

\* the nil expression with a map that maps nothing, $2 unbound
C12_Witness ==
  /\ Encoded /\ ret.expr = NilExpr /\ ret.kind = "ok"
  /\ ret.map = MkSlice(<<>>)
  /\ ~placeholders[2].bound


\* ------------------------------------------------------------------------
\* The processed-row counter (Spec)
\* ------------------------------------------------------------------------
\* C13: on every returned helper, with or without expressions, rowCount
\* equals the number of cookResultRow calls that returned without error.
C13_CountsSuccesses ==
  \A a \in returned : helpers[a].rowCount = calls[a].ok


\* the errors of the three classes, by their text
ConstructionErrors ==
  {"aggregate or window functions are not allowed in RETURNING",
   "column name not found"}
EvaluationErrors == {"division by zero", "no value provided for placeholder"}
InternalInvariantViolations ==
  {"unexpected ReturningClause type", "unmapped index",
   "failed to serialize placeholder", "index out of range"}

\* a column name of the list that the table does not have
HasUnknownColumn(list) ==
  \E i \in 1..Len(list) :
    \E l \in Range(Leaves(list[i])) : l.t = "col" /\ ColumnIndex(l.name) = 0

\* The class of the failure that the inputs of the last operation make it
\* detect, "" when they make it detect none of the three.
Detected ==
  CASE ret.op = "new" /\ ret.clause.kind \notin {"exprs", "nothing", "none"} ->
         "internal"
    [] ret.op = "new" /\ ret.clause.kind = "exprs"
         /\ (HasAggOrWindow(ret.clause.list) \/ HasUnknownColumn(ret.clause.list)) ->
         "construction"
    [] ret.op = "cook" /\ ~helpers[ret.rh].exprs.isNil
         /\ FirstFailing(ExprsOf(ret.rh), rows[ret.arg], placeholders) # 0
         /\ ValueOf(ExprsOf(ret.rh)[FirstFailing(ExprsOf(ret.rh), rows[ret.arg],
                                                 placeholders)],
                    rows[ret.arg], placeholders).kind = "err" ->
         "evaluation"
    [] Encoded /\ \E l \in Range(Leaves(ret.expr)) : CannotWrite(l) ->
         "internal"
    [] OTHER -> ""

\* C14 as stated: a failure of any of the three classes reaches the caller
\* as the error return value of the operation that detected it.
C14_AsStated ==
  Detected # "" => ret.kind = "err"

\* C14: a ConstructionError reaches the caller as the error return value of
\* newReturningHelper and an EvaluationError as that of cookResultRow, with
\* no helper and no row, the loop stopped at the failing expression; an
\* InternalInvariantViolation reaches the caller of newReturningHelper or
\* MakeExpression as a panic of that very call, with no helper and no text.
\* No detected failure ends in a successful return.
C14_Propagation ==
  /\ Detected = "construction" =>
       /\ ret.kind = "err" /\ ret.msg \in ConstructionErrors
       /\ ret.rh = NilRef /\ returned = {}
  /\ Detected = "evaluation" =>
       /\ ret.kind = "err" /\ ret.msg \in EvaluationErrors
       /\ ret.row = NilRef
       /\ ret.evald = FirstFailing(ExprsOf(ret.rh), rows[ret.arg], placeholders)
  /\ Detected = "internal" =>
       /\ ret.kind = "panic" /\ ret.msg \in InternalInvariantViolations
       /\ ret.rh = NilRef /\ ret.wire = <<>>
       /\ ret.op = "new" => returned = {}

\* one helper, both ways: a division by zero came back from cookResultRow
\* as an error value, then an unmapped index ends MakeExpression in a panic
C14_Witness ==
  /\ Encoded /\ Detected = "internal"
  /\ ret.kind = "panic" /\ ret.msg = "unmapped index"
  /\ \E i \in 1..Len(calls[1].log) :
       /\ calls[1].log[i].kind = "err"
       /\ calls[1].log[i].msg = "division by zero"

\* C15: on every helper without bound expressions, one built from an
\* explicit list that is empty included, a cookResultRow call succeeds,
\* returns the very row it was given and adds one to rowCount.
C15_EmptyPassThrough ==
  \A a \in returned :
    (CookedOn(a) /\ Len(ExprsOf(a)) = 0) =>
      /\ ret.kind = "ok"
      /\ ret.row = ret.arg
      /\ helpers[a].rowCount = ret.cnt0 + 1

\* C16: at every cookResultRow call on a helper with bound expressions the
\* row installed as curSourceRow has as many values as the source has
\* columns, and no IndexedVar is evaluated at an index outside it.
C16_RowLength ==
  \A a \in returned :
    (CookedOn(a) /\ Len(ExprsOf(a)) > 0) =>
      /\ helpers[a].curSourceRow = ret.arg
      /\ Len(RowVals(rows, helpers[a].curSourceRow)) = Len(helpers[a].source.elems)
      /\ ~(ret.kind = "panic" /\ ret.msg = "index out of range")

\* C17: in every returned helper every IndexedVar leaf of every bound
\* expression has an index from 0 to len(tablecols) - 1.
C17_IndexInSchema ==
  \A a \in returned :
    \A i \in 1..Len(ExprsOf(a)) :
      \A l \in Range(LeavesOf(ExprsOf(a)[i], "ivar")) :
        0 <= l.idx /\ l.idx < NCols

\* a star and named columns: the first and the last index both occur, the
\* last one both from the star and from a name
C17_Witness ==
  /\ ret.op = "new" /\ ret.kind = "ok" /\ ret.rh \in returned
  /\ ret.clause.kind = "exprs" /\ Star \in Range(ret.clause.list)
  /\ Len(ExprsOf(ret.rh)) = NCols + 1
  /\ ExprsOf(ret.rh)[1].idx = 0
  /\ ExprsOf(ret.rh)[NCols].idx = NCols - 1
  /\ \E l \in Range(LeavesOf(ExprsOf(ret.rh)[NCols + 1], "ivar")) : l.idx = NCols - 1

\* C18: newReturningHelper on a clause that is neither a ReturningExprs
\* list, nor NoReturningClause, nor ReturningNothing panics: it returns no
\* helper and no error value, and no returned helper was built from such a
\* clause.
C18_UnexpectedClausePanics ==
  /\ (ret.op = "new" /\ ret.clause.kind \notin {"exprs", "nothing", "none"}) =>
       /\ ret.kind = "panic"
       /\ ret.msg = "unexpected ReturningClause type"
       /\ ret.rh = NilRef
       /\ Len(helpers) \notin returned
  /\ \A a \in returned : calls[a].clause.kind \in {"exprs", "nothing", "none"}

C18_Witness ==
  /\ ret.op = "new" /\ ret.clause.kind = "other"
  /\ ret.kind = "panic" /\ returned = {}
  /\ helpers = <<NewHelper>>

\* C19: the error value of newReturningHelper and cookResultRow carries
\* ConstructionErrors and EvaluationErrors only, and a panic carries neither:
\* what comes back as an error value was detected as a construction or
\* evaluation failure, what was detected as an internal invariant violation
\* comes back as a panic, and MakeExpression never hands back an error
\* value.
C19_Distinguishable ==
  /\ ret.kind = "err" =>
       /\ ret.op \in {"new", "cook"}
       /\ ret.msg \in ConstructionErrors \cup EvaluationErrors
       /\ ret.msg \notin InternalInvariantViolations
       /\ Detected \in {"construction", "evaluation"}
  /\ ret.kind = "panic" =>
       /\ ret.msg \in InternalInvariantViolations
       /\ ret.msg \notin ConstructionErrors \cup EvaluationErrors
       /\ Detected \notin {"construction", "evaluation"}
  /\ Detected = "internal" => ret.kind = "panic"

\* the same unbound placeholder: an EvaluationError of cookResultRow
\* earlier, a panic of MakeExpression now
C19_Witness ==
  /\ Encoded /\ ret.kind = "panic"
  /\ ret.msg = "failed to serialize placeholder"
  /\ \E i \in 1..Len(calls[1].log) :
       /\ calls[1].log[i].kind = "err"
       /\ calls[1].log[i].msg = "no value provided for placeholder"

\* number of result entries of one source expression: one per table column
\* for a star, one otherwise
Width(target) == IF target = Star THEN NCols ELSE 1

RECURSIVE Offset(_, _)
\* number of result entries of the source expressions before the k-th
Offset(list, k) == IF k <= 1 THEN 0 ELSE Offset(list, k - 1) + Width(list[k - 1])

RECURSIVE Unbind(_)
\* the expression a bound expression was bound from: a variable of index j
\* is the name of the j-th table column (0-based)
Unbind(e) ==
  CASE e.t = "ivar" -> Col(TableCols[e.idx + 1])
    [] e.t = "bin" -> Bin(e.op, Unbind(e.l), Unbind(e.r))
    [] OTHER -> e

\* C20: in every helper returned for an explicit list, columns and exprs
\* have the same length, the entries of the k-th source expression stand at
\* the positions after those of the expressions before it, with the column
\* and the expression of one position coming from the same source entry (a
\* star gives, per table column, the column's name and its variable), and a
\* row returned by cookResultRow has one value per column.
C20_ColumnsMatchExprs ==
  \A a \in returned :
    calls[a].clause.kind = "exprs" =>
      LET list == calls[a].clause.list
          cols == helpers[a].columns.elems
      IN /\ Len(cols) = Len(ExprsOf(a))
         /\ Len(cols) = Offset(list, Len(list) + 1)
         /\ \A k \in 1..Len(list) :
              \A m \in 1..Width(list[k]) :
                LET p == Offset(list, k) + m
                IN IF list[k] = Star
                   THEN /\ cols[p].name = TableCols[m]
                        /\ ExprsOf(a)[p] = IVar(m - 1, a)
                   ELSE /\ cols[p].name = OutputName(list[k])
                        /\ Unbind(ExprsOf(a)[p]) = list[k]
         /\ (CookedOn(a) /\ ret.kind = "ok") => Len(rows[ret.row]) = Len(cols)

\* a star followed by an expression: three columns, three values
C20_Witness ==
  \E a \in returned :
    /\ calls[a].clause.kind = "exprs"
    /\ Len(calls[a].clause.list) = 2 /\ calls[a].clause.list[1] = Star
    /\ CookedOn(a) /\ ret.kind = "ok"
    /\ Len(helpers[a].columns.elems) = NCols + 1
    /\ Len(rows[ret.row]) = NCols + 1

\* C21: when some entry of the list holds an aggregate or window construct,
\* newReturningHelper returns that rejection, also when an earlier entry
\* names a column the table does not have, and the helper it allocated is
\* still the zero struct: no column, no expression, no source.
C21_CheckBeforeBind ==
  (ret.op = "new" /\ ret.clause.kind = "exprs" /\ HasAggOrWindow(ret.clause.list)) =>
    /\ ret.kind = "err"
    /\ ret.msg = "aggregate or window functions are not allowed in RETURNING"
    /\ helpers[Len(helpers)] = NewHelper

\* an unknown column in the first entry, the aggregate in the second
C21_Witness ==
  /\ ret.op = "new" /\ ret.kind = "err"
  /\ ret.clause = ExprsClause(<<Col("z"), Agg(Col("v"))>>)
  /\ HasUnknownColumn(<<ret.clause.list[1]>>)
  /\ ret.msg = "aggregate or window functions are not allowed in RETURNING"
  /\ helpers[Len(helpers)].exprs.isNil

\* the kept call and the last call got the same expression and map
SameInputsAsKept ==
  /\ Encoded /\ enc[1].pc = "kept"
  /\ ret.expr = enc[1].expr /\ ret.map = enc[1].map

C23_Frame ==
  [][ret'.op = "cook" =>
       /\ Len(helpers') = Len(helpers)
       /\ \A a \in 1..Len(helpers) :
            /\ helpers'[a].source = helpers[a].source
            /\ helpers'[a].columns = helpers[a].columns
            /\ helpers'[a].exprs = helpers[a].exprs
            /\ a # ret'.rh => helpers'[a] = helpers[a]
       /\ helpers[ret'.rh].exprs.isNil =>
            helpers'[ret'.rh].curSourceRow = helpers[ret'.rh].curSourceRow]_vars

\* a call that failed at the second expression, after a call that
\* succeeded: the helper still has all its expressions and columns
C23_Witness ==
  \E a \in returned :
    /\ CookedOn(a) /\ ret.kind = "err" /\ ret.evald = 2
    /\ calls[a].ok >= 1
    /\ helpers[a].curSourceRow = ret.arg
    /\ Len(ExprsOf(a)) = Len(calls[a].clause.list)
    /\ Len(helpers[a].columns.elems) = Len(ExprsOf(a))
\* C24: Marshal of every StoreStatus and NodeStatus returns without panic
\* a slice of exactly Size() bytes, the whole buffer it allocated, and
\* encodeVarintStatus(dAtA, offset, v) stays inside the slice and returns
\* offset + sovStatus(v).
C24_MarshalFillsSize ==
  /\ pb.op = "Marshal" =>
       /\ pb.res.kind = "ok"
       /\ pb.res.n = pb.res.size
       /\ Len(pb.res.out) = pb.res.size
  /\ pb.op = "encodeVarint" =>
       /\ pb.kind = "ok"
       /\ pb.end = pb.offset + pb.sov
       /\ Len(pb.dAtA) = pb.end

\* a NodeStatus with a nested StoreStatus of 129 bytes, an argument of 128
\* bytes and a negative latency key has been marshalled
C24_Witness ==
  /\ pb.op = "Marshal" /\ pb.type = "NodeStatus"
  /\ Len(pb.m.StoreStatuses) = 2
  /\ pb.m.StoreStatuses[2].Desc = 127
  /\ Len(pb.m.Args) >= 1 /\ Len(pb.m.Args[1]) = 128
  /\ -1 \in DOMAIN pb.m.Latencies
  /\ pb.res.kind = "ok" /\ pb.res.n > 300

\* the length varint that follows the one-byte tag of an input
LengthOf(dAtA) == VarintLoop(dAtA, U64(1), 0, Zero64)
\* the input starts with the tag of Desc or of Metrics, length-delimited
StartsWithKnownField(dAtA) == Len(dAtA) >= 1 /\ dAtA[1] \in {10, 18}
\* the declared length is not negative and larger than what is left
CutShort(dAtA) ==
  /\ LengthOf(dAtA).kind = "ok" /\ ~IsNeg64(LengthOf(dAtA).v)
  /\ \/ ~IsSmall64(LengthOf(dAtA).v)
     \/ ToInt(LengthOf(dAtA).v) > Len(dAtA) - ToInt(LengthOf(dAtA).iNdEx)

\* C25: StoreStatus.Unmarshal and skipStatus never index outside their
\* input (no index or slice bounds panic of the runtime); on an input that
\* starts with a length-delimited known field, a length of more than 64
\* bits yields ErrIntOverflowStatus, a negative length yields
\* ErrInvalidLengthStatus, and a length larger than the rest of the input
\* yields io.ErrUnexpectedEOF.
C25_DecoderSafe ==
  /\ pb.op \in {"Unmarshal", "skipStatus"} =>
       ~(/\ pb.res.kind = "panic"
         /\ pb.res.err \in {"index out of range", "slice bounds out of range"})
  /\ pb.op = "Unmarshal" /\ StartsWithKnownField(pb.dAtA) =>
       /\ LengthOf(pb.dAtA).err = "ErrIntOverflowStatus"
            => pb.res.err = "ErrIntOverflowStatus"
       /\ LengthOf(pb.dAtA).kind = "ok" /\ IsNeg64(LengthOf(pb.dAtA).v)
            => pb.res.err = "ErrInvalidLengthStatus"
       /\ CutShort(pb.dAtA) => pb.res.err = "io.ErrUnexpectedEOF"

====
